---------------------------- MODULE Spec2Model ----------------------------
(***************************************************************************)
(* A model of lib_sysconfig.py (charm-sysconfig): the BootResourceState    *)
(* change tracker and the SysConfigHelper reconciliation methods.          *)
(*                                                                         *)
(* Time is an integer clock.  The unit's key/value store (unitdata.kv) is  *)
(* a function whose domain is the set of keys that are set; the            *)
(* filesystem is a function whose domain is the set of paths that exist.   *)
(* A file's content is a record <<template, context, layout>>: the         *)
(* rendering collaborator is a function of template and context, and       *)
(* layout distinguishes texts that differ only in ordering or formatting.  *)
(***************************************************************************)
EXTENDS Integers, FiniteSets, Sequences, TLC

(***************************************************************************)
(* Bounds of the model.                                                    *)
(***************************************************************************)
MaxTime == 4

(***************************************************************************)
(* Module constants of lib_sysconfig.py.                                   *)
(***************************************************************************)
CPUFREQUTILS_TMPL == "cpufrequtils.j2"
GRUB_CONF_TMPL == "grub.j2"
SYSTEMD_SYSTEM_TMPL == "etc.systemd.system.conf.j2"
SYSTEMD_RESOLVED_TMPL == "etc.systemd.resolved.conf.j2"
IRQBALANCE_CONF_TMPL == "irqbalance.j2"

CPUFREQUTILS == "/etc/default/cpufrequtils"
GRUB_CONF == "/etc/default/grub.d/90-sysconfig.cfg"
SYSTEMD_SYSTEM == "/etc/systemd/system.conf"
SYSTEMD_RESOLVED == "/etc/systemd/resolved.conf"
SYSCTL_CONF == "/etc/sysctl.d/90-charm-sysconfig.conf"
KERNEL == "kernel"
IRQBALANCE_CONF == "/etc/default/irqbalance"

VARIABLES
    now,              \* the wall clock, datetime.now(timezone.utc)
    boot,             \* the time of the last boot, as boot_time() derives it
    db,               \* unitdata.kv(): key -> value, for the keys that are set
    fs,               \* the filesystem: path -> content, for the paths that exist
    config,           \* hookenv.config(): the charm configuration
    is_container,     \* host.is_container()
    uname_release,    \* os.uname().release, the running kernel
    packages,         \* the packages apt has installed
    ondemand_masked,  \* whether the ondemand service is masked
    cutoff_fs,        \* history: the filesystem at the later of the last boot and
                      \* the last acknowledgment (no part of the program's state;
                      \* kept by SpecCutoff alone)
    last              \* the most recent call: its name, return value and effects

vars ==
    <<now, boot, db, fs, config, is_container, uname_release, packages,
      ondemand_masked, cutoff_fs, last>>

(***************************************************************************)
(* Time.                                                                   *)
(***************************************************************************)
\* datetime.min: earlier than every time the clock shows (the clock starts at 1).
DatetimeMin == 0

Max(a, b) == IF a < b THEN b ELSE a

\* A reading of the clock in a call: not earlier than the previous one, and
\* later than the boot (the charm runs once the machine is up).
Clock(t) == t \in {now, now + 1} /\ boot < t /\ t <= MaxTime


(***************************************************************************)
(* The key/value store and the filesystem.                                 *)
(***************************************************************************)
\* db.get(key) of a key that is not set.
None == [none |-> TRUE]

db_has(key) == key \in DOMAIN db
db_get(key) == IF db_has(key) THEN db[key] ELSE None
db_set(d, key, value) ==
    [k \in DOMAIN d \cup {key} |-> IF k = key THEN value ELSE d[k]]

\* os.path.exists(path)
exists(path) == path \in DOMAIN fs
\* The filesystem after writing content to path.
fs_write(f, path, content) ==
    [p \in DOMAIN f \cup {path} |-> IF p = path THEN content ELSE f[p]]
\* The filesystem after os.remove(path).
fs_remove(f, path) == [p \in DOMAIN f \ {path} |-> f[p]]

\* charmhelpers' render(source, target, context): the text of a template is a
\* function of the template and the context.
render(source, context) ==
    [template |-> source, context |-> context, layout |-> 0]

CLEAR_NOTIFICATION_KEY == <<"clear-notification-timestamp">>

\* clear_notification_time() returns None: the key is unset, or its value falsy.
clear_notification_time_is_none ==
    ~(db_has(CLEAR_NOTIFICATION_KEY) /\ db[CLEAR_NOTIFICATION_KEY] # 0)
\* clear_notification_time(), when it is not None.
clear_notification_time == db[CLEAR_NOTIFICATION_KEY]

(***************************************************************************)
(* BootResourceState.                                                      *)
(***************************************************************************)
key_for(resource_name) == <<"sysconfig.boot_resource", resource_name>>
sha256sum_key(resource_name) == key_for(resource_name) \o <<"sha256sum">>

\* hashlib.sha256 of a file's bytes: one digest per content.
sha256(content) == [sha256 |-> content]

\* open(resource_name) fails when the file does not exist.
calculate_raises(resource_name) == ~exists(resource_name)
calculate_resource_sha256sum(resource_name) == sha256(fs[resource_name])

get_resource_sha256sum(resource_name) == db_get(sha256sum_key(resource_name))

\* Mutant: an untracked resource defaults to the end of time.
get_resource_changed_timestamp_max(resource_name) ==
    IF db_has(key_for(resource_name))
    THEN db[key_for(resource_name)]
    ELSE MaxTime + 1

get_resource_changed_timestamp(resource_name) ==
    IF db_has(key_for(resource_name))
    THEN db[key_for(resource_name)]
    ELSE DatetimeMin

\* The store after update_resource_checksums(resources) on store d.
update_resource_checksums(d, resources) ==
    LET done == {r \in resources : exists(r)}
    IN  [k \in DOMAIN d \cup {sha256sum_key(r) : r \in done} |->
            IF \E r \in done : k = sha256sum_key(r)
            THEN calculate_resource_sha256sum(k[2])
            ELSE d[k]]

\* Mutant: set_resource stores the checksum of the file as well.
set_resource_with_checksum(d, resource_name, t) ==
    LET timed == db_set(d, key_for(resource_name), t)
    IN  IF exists(resource_name)
        THEN db_set(timed, sha256sum_key(resource_name),
                    calculate_resource_sha256sum(resource_name))
        ELSE timed

\* The store after set_resource(resource_name) at time t on store d.
set_resource(d, resource_name, t) == db_set(d, key_for(resource_name), t)

\* checksum_changed(resource_name) raises when a checksum is on record and the
\* file cannot be opened.
checksum_changed_raises(resource_name) ==
    /\ get_resource_sha256sum(resource_name) # None
    /\ calculate_raises(resource_name)

\* Mutant: without a checksum on record, nothing counts as changed.
checksum_changed_no_default(resource_name) ==
    IF get_resource_sha256sum(resource_name) = None
    THEN FALSE
    ELSE get_resource_sha256sum(resource_name)
            # calculate_resource_sha256sum(resource_name)

checksum_changed(resource_name) ==
    IF get_resource_sha256sum(resource_name) = None
    THEN TRUE
    ELSE get_resource_sha256sum(resource_name)
            # calculate_resource_sha256sum(resource_name)

\* Mutant: the acknowledgment is ignored.
acknowledged_ts_boot_only == boot

\* Mutant: an acknowledgment on record is the cutoff, however old.
acknowledged_ts_latest_ack ==
    IF ~clear_notification_time_is_none
    THEN clear_notification_time
    ELSE boot

\* acknowledged_ts of resources_changed_since_boot.
acknowledged_ts ==
    IF ~clear_notification_time_is_none
    THEN Max(boot, clear_notification_time)
    ELSE boot

time_changed(resource_names) ==
    {name \in resource_names :
        acknowledged_ts < get_resource_changed_timestamp(name)}

csum_changed(resource_names) ==
    {name \in resource_names : checksum_changed(name)}

\* c: checksum mismatch without a change since boot; these are re-baselined.
csum_only_changed(resource_names) ==
    csum_changed(resource_names) \ time_changed(resource_names)

\* Mutant: everything but the re-baselined resources is returned.
changed_all_but_rebaselined(resource_names) ==
    resource_names \ csum_only_changed(resource_names)

\* The list resources_changed_since_boot returns, as a set.
changed(resource_names) ==
    LET a == time_changed(resource_names)
        b == csum_changed(resource_names)
        c == csum_only_changed(resource_names)
        d == b \ c
    IN  a \cap d


(***************************************************************************)
(* parse_config_flags.  A string is a sequence of one-character strings.   *)
(***************************************************************************)
Whitespace == {" ", "\t", "\n"}

RECURSIVE CountQuotes(_)
CountQuotes(s) ==
    IF s = <<>> THEN 0
    ELSE (IF Head(s) = "\"" THEN 1 ELSE 0) + CountQuotes(Tail(s))

\* Mutant: every comma splits, quoted or not.
SplitPointsEveryComma(s) == {i \in 1..Len(s) : s[i] = ","}

\* The commas the regular expression splits at: those followed, up to the end
\* of the string, by an even number of double quotes.
SplitPoints(s) ==
    {i \in 1..Len(s) :
        s[i] = "," /\ CountQuotes(SubSeq(s, i + 1, Len(s))) % 2 = 0}

SetMin(S) == CHOOSE x \in S : \A y \in S : x <= y
SetMax(S) == CHOOSE x \in S : \A y \in S : y <= x

RECURSIVE SplitFlags(_)
SplitFlags(s) ==
    IF SplitPoints(s) = {} THEN <<s>>
    ELSE LET i == SetMin(SplitPoints(s))
         IN  <<SubSeq(s, 1, i - 1)>> \o SplitFlags(SubSeq(s, i + 1, Len(s)))

HasEquals(s) == \E i \in 1..Len(s) : s[i] = "="
FirstEquals(s) == SetMin({i \in 1..Len(s) : s[i] = "="})

\* str.strip
RECURSIVE LStrip(_)
LStrip(s) ==
    IF s # <<>> /\ Head(s) \in Whitespace THEN LStrip(Tail(s)) ELSE s
RECURSIVE RStrip(_)
RStrip(s) ==
    IF s # <<>> /\ s[Len(s)] \in Whitespace
    THEN RStrip(SubSeq(s, 1, Len(s) - 1))
    ELSE s
Strip(s) == LStrip(RStrip(s))

\* The value of the pair at index: the text after the first "=", stripped, and
\* every following token up to the next one containing "=", joined by commas.
RECURSIVE FlagTail(_, _)
FlagTail(pairs, i) ==
    IF i > Len(pairs) \/ HasEquals(pairs[i]) THEN <<>>
    ELSE <<",">> \o pairs[i] \o FlagTail(pairs, i + 1)

FlagKey(pair) == Strip(SubSeq(pair, 1, FirstEquals(pair) - 1))
FlagValue(pairs, index) ==
    Strip(SubSeq(pairs[index], FirstEquals(pairs[index]) + 1, Len(pairs[index])))
        \o FlagTail(pairs, index + 1)

parse_config_flags(config_flags) ==
    LET key_value_pairs == SplitFlags(config_flags)
        with_key == {i \in 1..Len(key_value_pairs) : HasEquals(key_value_pairs[i])}
        keys == {FlagKey(key_value_pairs[i]) : i \in with_key}
    IN  [key \in keys |->
            FlagValue(key_value_pairs,
                      SetMax({i \in with_key : FlagKey(key_value_pairs[i]) = key}))]


(***************************************************************************)
(* The charm configuration and SysConfigHelper's properties.               *)
(***************************************************************************)
\* A string of the config-flags format, as its characters.
NoFlags == <<>>
FlagsA == <<"a", "=", "1">>
FlagsB == <<"a", "=", "1", ",", "2", ",", " ", "b", "=", "3">>

\* The kernel the unit boots with, and another one that can be configured.
KernelA == "5.4.0-100-generic"
KernelB == "5.4.0-200-generic"

\* The values the model gives each option; the first is the default.
OptionValues ==
    [ x \in {"enable-container"} |-> <<FALSE>> ] @@
    [ x \in {"reservation"} |-> <<"off", "isolcpus", "affinity", "bogus">> ] @@
    [ x \in {"cpu-range"} |-> <<"", "0-3">> ] @@
    [ x \in {"cpu-affinity-range"} |-> <<"", "4-7">> ] @@
    [ x \in {"isolcpus"} |-> <<"", "8-11">> ] @@
    [ x \in {"hugepages"} |-> <<"", "100">> ] @@
    [ x \in {"hugepagesz"} |-> <<"", "1G">> ] @@
    [ x \in {"default-hugepagesz"} |-> <<"", "1G">> ] @@
    [ x \in {"raid-autodetection"} |-> <<"", "noautodetect", "partitionable", "bogus">> ] @@
    [ x \in {"enable-pti"} |-> <<"", "on", "off", "bogus">> ] @@
    [ x \in {"enable-iommu"} |-> <<FALSE, TRUE>> ] @@
    [ x \in {"enable-tsx"} |-> <<FALSE, TRUE>> ] @@
    [ x \in {"grub-config-flags"} |-> <<NoFlags, FlagsA, FlagsB>> ] @@
    [ x \in {"systemd-config-flags"} |-> <<NoFlags, FlagsA, FlagsB>> ] @@
    [ x \in {"kernel-version"} |-> <<"", KernelA, KernelB>> ] @@
    [ x \in {"update-grub"} |-> <<FALSE, TRUE>> ] @@
    [ x \in {"governor"} |-> <<"", "performance", "powersave", "bogus">> ] @@
    [ x \in {"resolved-cache-mode"} |-> <<"", "yes", "no", "no-negative", "bogus">> ] @@
    [ x \in {"sysctl"} |-> <<"", "{vm.swappiness: 1}", "{: bad yaml">> ] @@
    [ x \in {"config-flags"} |-> <<NoFlags, [grub |-> FlagsA], [systemd |-> FlagsA]>> ] @@
    [ x \in {"irqbalance-banned-cpus"} |-> <<"", "3000030000300003">> ]

Options == DOMAIN OptionValues
Range(seq) == {seq[i] : i \in 1..Len(seq)}
DefaultConfig == [option \in Options |-> OptionValues[option][1]]

reservation == config["reservation"]
cpu_range == config["cpu-range"]

\* Mutant: the fallback to cpu-range applies under every reservation.
cpu_affinity_range_any_reservation ==
    IF /\ config["cpu-affinity-range"] = ""
       /\ cpu_range # ""
    THEN cpu_range
    ELSE config["cpu-affinity-range"]

cpu_affinity_range ==
    IF /\ config["cpu-affinity-range"] = ""
       /\ reservation = "affinity"
       /\ cpu_range # ""
    THEN cpu_range
    ELSE config["cpu-affinity-range"]

isolcpus ==
    IF /\ config["isolcpus"] = ""
       /\ reservation = "isolcpus"
       /\ cpu_range # ""
    THEN cpu_range
    ELSE config["isolcpus"]

raid_autodetection == config["raid-autodetection"]
enable_pti == config["enable-pti"]
governor == config["governor"]
resolved_cache_mode == config["resolved-cache-mode"]
kernel_version == config["kernel-version"]
irqbalance_banned_cpus == config["irqbalance-banned-cpus"]

grub_config_flags == parse_config_flags(config["grub-config-flags"])
systemd_config_flags == parse_config_flags(config["systemd-config-flags"])

\* The deprecated config-flags option, as charmhelpers' config_flags_parser
\* reads it: a mapping from "grub" and "systemd" to a flags string.
config_flags == config["config-flags"]
flags_get(flags, section) ==
    IF section \in DOMAIN flags THEN flags[section] ELSE NoFlags

\* yaml.safe_load of the sysctl option raises on malformed YAML.
sysctl_config_raises == config["sysctl"] = "{: bad yaml"
sysctl_config == IF config["sysctl"] = "" THEN <<>> ELSE [yaml |-> config["sysctl"]]

running_kernel == uname_release

\* Mutant: the configured kernel is never found running.
_is_kernel_never_running == FALSE

_is_kernel_already_running == kernel_version = running_kernel

is_config_valid ==
    /\ reservation \in {"off", "isolcpus", "affinity"}
    /\ raid_autodetection \in {"", "noautodetect", "partitionable"}
    /\ governor \in {"", "powersave", "performance"}
    /\ resolved_cache_mode \in {"", "yes", "no", "no-negative"}

GRUB_DEFAULT(version) == <<"Advanced options for Ubuntu>Ubuntu, with Linux ", version>>

\* A rendering context: the keys that are set, each with its value.
_assemble_grub_context ==
    LET attr == [isolcpus |-> isolcpus,
                 hugepages |-> config["hugepages"],
                 hugepagesz |-> config["hugepagesz"],
                 default_hugepagesz |-> config["default-hugepagesz"]]
        keys == {a \in DOMAIN attr : attr[a] # ""}
                \cup (IF raid_autodetection # "" THEN {"raid"} ELSE {})
                \cup (IF enable_pti \in {"on", "off"} THEN {"enable_pti"} ELSE {})
                \cup (IF config["enable-iommu"] THEN {"iommu"} ELSE {})
                \cup (IF config["enable-tsx"] THEN {"tsx"} ELSE {})
                \cup {"grub_config_flags"}
                \cup (IF kernel_version # "" /\ ~_is_kernel_already_running
                      THEN {"grub_default"} ELSE {})
    IN  [k \in keys |->
            CASE k \in DOMAIN attr -> attr[k]
              [] k = "raid" -> raid_autodetection
              [] k = "enable_pti" -> enable_pti
              [] k = "iommu" -> TRUE
              [] k = "tsx" -> TRUE
              [] k = "grub_config_flags" ->
                    IF grub_config_flags # <<>>
                    THEN grub_config_flags
                    ELSE parse_config_flags(flags_get(config_flags, "grub"))
              [] k = "grub_default" -> GRUB_DEFAULT(kernel_version)]

_assemble_systemd_context ==
    LET keys == (IF cpu_affinity_range # "" THEN {"cpu_affinity_range"} ELSE {})
                \cup {"systemd_config_flags"}
    IN  [k \in keys |->
            CASE k = "cpu_affinity_range" -> cpu_affinity_range
              [] k = "systemd_config_flags" ->
                    IF systemd_config_flags # <<>>
                    THEN systemd_config_flags
                    ELSE parse_config_flags(flags_get(config_flags, "systemd"))]

\* ConfigParser's view of a text: its sections and their key/value pairs,
\* whatever the order and the formatting.
config_parser(content) == [Manager |-> content.context]
\* ConfigParser.read of a file that may not exist: nothing is read.
config_parser_read(path) ==
    IF exists(path) THEN config_parser(fs[path]) ELSE <<>>

\* Mutant: an update is always found available.
_systemd_update_available_always(context) == TRUE

\* Mutant: the texts are compared, not what ConfigParser reads from them.
_systemd_update_available_by_text(context) ==
    ~exists(SYSTEMD_SYSTEM) \/ fs[SYSTEMD_SYSTEM] # render(SYSTEMD_SYSTEM_TMPL, context)

_systemd_update_available(context) ==
    config_parser_read(SYSTEMD_SYSTEM)
        # config_parser(render(SYSTEMD_SYSTEM_TMPL, context))


(***************************************************************************)
(* Calls.  Every action is one call of a function or method (or one event  *)
(* of the environment) and leaves in `last` its name, what it returned,    *)
(* whether it raised, and the external effects it completed, in order.     *)
(***************************************************************************)
Call(op, args, ret, raised, calls) ==
    [op |-> op, args |-> args, ret |-> ret, raised |-> raised, calls |-> calls]

Do(op, args, t, f, d, m, p, ret, raised, calls) ==
    /\ now' = t
    /\ fs' = f
    /\ db' = d
    /\ ondemand_masked' = m
    /\ packages' = p
    /\ last' = Call(op, args, ret, raised, calls)
    /\ UNCHANGED <<boot, config, is_container, uname_release, cutoff_fs>>

\* The external commands that can fail in a call; "none": all succeed.
Failures == {"none", "render", "update-grub", "apt", "restart"}

\* host.service_restart(service_name): it returns False when the restart
\* fails and does not raise.
service_restart(service_name, fail) ==
    <<<<IF fail = "restart" THEN "service_restart_failed" ELSE "service_restart",
        service_name>>>>

(***************************************************************************)
(* The environment.                                                        *)
(***************************************************************************)
\* The text of a file this charm did not render.
Foreign == [template |-> "", context |-> [foreign |-> TRUE], layout |-> 0]
\* The same text in another order or formatting.
Reformatted(content) == [content EXCEPT !.layout = 1 - @]

\* The machine reboots, into its running kernel or an installed one.
Reboot(t, release) ==
    /\ t \in {now, now + 1}
    /\ t <= MaxTime
    /\ release \in {uname_release}
                    \cup {pkg[2] : pkg \in {q \in packages : q[1] = "linux-image"}}
    /\ now' = t
    /\ boot' = t
    /\ uname_release' = release
    /\ last' = Call("reboot", None, None, FALSE, <<>>)
    /\ UNCHANGED <<db, fs, config, is_container, packages, ondemand_masked>>

\* Something other than the charm rewrites a file.
ExternalEdit(t, path, content) ==
    /\ Clock(t)
    /\ now' = t
    /\ exists(path)
    /\ content \in {Foreign, Reformatted(fs[path])} \ {fs[path]}
    /\ fs' = fs_write(fs, path, content)
    /\ last' = Call("external_edit", path, None, FALSE, <<>>)
    /\ UNCHANGED <<boot, db, config, is_container, uname_release, packages,
                   ondemand_masked, cutoff_fs>>

\* The operator sets an option of the charm.
ConfigChanged(t, option, value) ==
    /\ Clock(t)
    /\ now' = t
    /\ option \in Options
    /\ value \in Range(OptionValues[option]) \ {config[option]}
    /\ config' = [config EXCEPT ![option] = value]
    /\ last' = Call("config_changed", option, None, FALSE, <<>>)
    /\ UNCHANGED <<boot, db, fs, is_container, uname_release, packages,
                   ondemand_masked, cutoff_fs>>

(***************************************************************************)
(* Module functions and BootResourceState's methods.                       *)
(***************************************************************************)
clear_notification(t) ==
    /\ Clock(t)
    /\ now' = t
    /\ db' = db_set(db, CLEAR_NOTIFICATION_KEY, t)
    /\ last' = Call("clear_notification", None, None, FALSE, <<>>)
    /\ UNCHANGED <<boot, fs, config, is_container, uname_release, packages,
                   ondemand_masked>>

Call_checksum_changed(t, resource_name) ==
    /\ Clock(t)
    /\ IF checksum_changed_raises(resource_name)
       THEN Do("checksum_changed", resource_name, t, fs, db, ondemand_masked, packages,
               None, TRUE, <<>>)
       ELSE Do("checksum_changed", resource_name, t, fs, db, ondemand_masked, packages,
               checksum_changed(resource_name), FALSE, <<>>)

\* Mutant: the checksum of every resource that fails the checksum test is
\* recorded, the returned ones included.
resources_changed_since_boot_rebaselines_all(t, resource_names) ==
    /\ Clock(t)
    /\ IF \E name \in resource_names : checksum_changed_raises(name)
       THEN Do("resources_changed_since_boot", resource_names, t, fs, db, ondemand_masked,
               packages, None, TRUE, <<>>)
       ELSE Do("resources_changed_since_boot", resource_names, t, fs,
               update_resource_checksums(db, csum_changed(resource_names)),
               ondemand_masked, packages, changed(resource_names), FALSE, <<>>)

resources_changed_since_boot(t, resource_names) ==
    /\ Clock(t)
    /\ IF \E name \in resource_names : checksum_changed_raises(name)
       THEN Do("resources_changed_since_boot", resource_names, t, fs, db, ondemand_masked,
               packages, None, TRUE, <<>>)
       ELSE Do("resources_changed_since_boot", resource_names, t, fs,
               update_resource_checksums(db, csum_only_changed(resource_names)),
               ondemand_masked, packages, changed(resource_names), FALSE, <<>>)


(***************************************************************************)
(* SysConfigHelper's reconciliation methods.  t is the clock's reading in  *)
(* the call; fail names the external command that fails in this call.  *)
(***************************************************************************)
\* _update_grub runs /usr/sbin/update-grub under this condition.
_update_grub_runs == config["update-grub"] /\ ~is_container

\* md5 of a file's bytes, as charms.reactive's any_file_changed computes it.
md5(content) == [md5 |-> content]
files_changed_key(path) == <<"reactive.files_changed", path>>

update_grub_file(t, fail) ==
    LET context == _assemble_grub_context
        written == fs_write(fs, GRUB_CONF, render(GRUB_CONF_TMPL, context))
        recorded == set_resource(db, GRUB_CONF, t)
        rendered == <<<<"render", GRUB_CONF>>, <<"set_resource", GRUB_CONF>>>>
    IN  /\ Clock(t)
        /\ fail \in {"none", "render", "update-grub"}
        /\ IF fail = "render"
           THEN Do("update_grub_file", None, t, fs, db, ondemand_masked, packages,
                   None, TRUE, <<>>)
           ELSE IF _update_grub_runs /\ fail = "update-grub"
           THEN Do("update_grub_file", None, t, written, recorded, ondemand_masked,
                   packages, None, TRUE, rendered)
           ELSE Do("update_grub_file", None, t, written, recorded, ondemand_masked,
                   packages, None, FALSE,
                   IF _update_grub_runs
                   THEN rendered \o <<<<"check_call", "update-grub">>>>
                   ELSE rendered)

update_systemd_system_file(t, fail) ==
    LET context == _assemble_systemd_context
        written == fs_write(fs, SYSTEMD_SYSTEM, render(SYSTEMD_SYSTEM_TMPL, context))
        recorded == set_resource(db, SYSTEMD_SYSTEM, t)
    IN  /\ Clock(t)
        /\ fail \in {"none", "render"}
        /\ IF fail = "render"
           THEN Do("update_systemd_system_file", None, t, fs, db, ondemand_masked,
                   packages, None, TRUE, <<>>)
           ELSE IF _systemd_update_available(context)
           THEN Do("update_systemd_system_file", None, t, written, recorded,
                   ondemand_masked, packages, None, FALSE,
                   <<<<"render", SYSTEMD_SYSTEM>>, <<"set_resource", SYSTEMD_SYSTEM>>>>)
           ELSE Do("update_systemd_system_file", None, t, fs, db, ondemand_masked,
                   packages, None, FALSE, <<>>)

\* Mutant: the resolver is restarted after every render.
_update_systemd_resolved_always_restarts(op, t, context, fail) ==
    LET content == render(SYSTEMD_RESOLVED_TMPL, context)
        written == fs_write(fs, SYSTEMD_RESOLVED, content)
        key == files_changed_key(SYSTEMD_RESOLVED)
    IN  /\ Clock(t)
        /\ fail \in {"none", "render", "restart"}
        /\ IF fail = "render"
           THEN Do(op, None, t, fs, db, ondemand_masked, packages, None, TRUE, <<>>)
           ELSE Do(op, None, t, written, db_set(db, key, md5(content)),
                   ondemand_masked, packages, None, FALSE,
                   <<<<"render", SYSTEMD_RESOLVED>>>>
                   \o service_restart("systemd-resolved", fail))

\* _update_systemd_resolved(context), called as op.
_update_systemd_resolved(op, t, context, fail) ==
    LET content == render(SYSTEMD_RESOLVED_TMPL, context)
        written == fs_write(fs, SYSTEMD_RESOLVED, content)
        key == files_changed_key(SYSTEMD_RESOLVED)
        any_file_changed == db_get(key) # md5(content)
    IN  /\ Clock(t)
        /\ fail \in {"none", "render", "restart"}
        /\ IF fail = "render"
           THEN Do(op, None, t, fs, db, ondemand_masked, packages, None, TRUE, <<>>)
           ELSE IF any_file_changed
           THEN Do(op, None, t, written, db_set(db, key, md5(content)),
                   ondemand_masked, packages, None, FALSE,
                   <<<<"render", SYSTEMD_RESOLVED>>>>
                   \o service_restart("systemd-resolved", fail))
           ELSE Do(op, None, t, written, db, ondemand_masked, packages, None, FALSE,
                   <<<<"render", SYSTEMD_RESOLVED>>>>)

update_systemd_resolved(t, fail) ==
    _update_systemd_resolved(
        "update_systemd_resolved", t,
        IF resolved_cache_mode # "" THEN [cache |-> resolved_cache_mode] ELSE <<>>,
        fail)

\* The file charmhelpers' sysctl.create writes for a mapping of keys.
sysctl_create(mapping) == [template |-> "sysctl", context |-> mapping, layout |-> 0]

update_sysctl(t, fail) ==
    /\ Clock(t)
    /\ fail \in {"none"}
    /\ IF sysctl_config_raises
       THEN Do("update_sysctl", None, t, fs, db, ondemand_masked, packages,
               None, TRUE, <<>>)
       ELSE Do("update_sysctl", None, t,
               fs_write(fs, SYSCTL_CONF, sysctl_create(sysctl_config)),
               db, ondemand_masked, packages, None, FALSE,
               <<<<"sysctl.create", SYSCTL_CONF>>>>)

\* apt_install is called without fatal=True: when apt fails, charmhelpers
\* raises or returns as if it had installed, whichever its fatal default is;
\* both outcomes are modelled.  A failed install is the effect
\* <<"apt_install_failed", package>>.
install_configured_kernel(t, fail) ==
    LET configured == kernel_version
        modules == <<"linux-modules-extra", configured>>
        image == <<"linux-image", configured>>
        op == "install_configured_kernel"
    IN  /\ Clock(t)
        /\ fail \in {"none", "apt"}
        /\ IF configured = ""
           THEN Do(op, None, t, fs, db, ondemand_masked, packages, None, FALSE, <<>>)
           ELSE IF _is_kernel_already_running
           THEN IF fail = "apt"
                THEN \/ Do(op, None, t, fs, db, ondemand_masked, packages, None, TRUE,
                           <<>>)
                     \/ Do(op, None, t, fs, db, ondemand_masked, packages, None, FALSE,
                           <<<<"apt_install_failed", "linux-modules-extra">>>>)
                ELSE Do(op, None, t, fs, db, ondemand_masked,
                        packages \cup {modules}, None, FALSE,
                        <<<<"apt_install", "linux-modules-extra">>>>)
           ELSE IF fail = "apt"
                THEN \/ Do(op, None, t, fs, db, ondemand_masked, packages, None, TRUE,
                           <<>>)
                     \/ Do(op, None, t, fs, db, ondemand_masked,
                           packages \cup {modules}, None, TRUE,
                           <<<<"apt_install", "linux-modules-extra">>>>)
                     \/ Do(op, None, t, fs, set_resource(db, KERNEL, t),
                           ondemand_masked, packages \cup {modules}, None, FALSE,
                           <<<<"apt_install", "linux-modules-extra">>,
                             <<"apt_install_failed", "linux-image">>,
                             <<"set_resource", KERNEL>>>>)
                ELSE Do(op, None, t, fs, set_resource(db, KERNEL, t),
                        ondemand_masked, packages \cup {modules, image}, None, FALSE,
                        <<<<"apt_install", "linux-modules-extra">>,
                          <<"apt_install", "linux-image">>,
                          <<"set_resource", KERNEL>>>>)

\* Mutant: the governor is not checked.
update_cpufreq_unchecked(t, fail) ==
    /\ Clock(t)
    /\ fail \in {"none", "render"}
    /\ Do("update_cpufreq", None, t,
          fs_write(fs, CPUFREQUTILS, render(CPUFREQUTILS_TMPL, [governor |-> governor])),
          set_resource(db, CPUFREQUTILS, t), ondemand_masked, packages, None, FALSE,
          <<<<"render", CPUFREQUTILS>>, <<"set_resource", CPUFREQUTILS>>,
            <<"service_restart", "cpufrequtils">>>>)

\* Mutant: outside a container ondemand is masked whatever the governor.
update_cpufreq_always_masks(t, fail) ==
    /\ Clock(t)
    /\ fail \in {"none", "render", "restart"}
    /\ IF governor \notin {"", "performance", "powersave"}
       THEN Do("update_cpufreq", None, t, fs, db, ondemand_masked, packages,
               None, FALSE, <<>>)
       ELSE Do("update_cpufreq", None, t,
               fs_write(fs, CPUFREQUTILS, render(CPUFREQUTILS_TMPL, [governor |-> governor])),
               set_resource(db, CPUFREQUTILS, t),
               IF is_container THEN ondemand_masked ELSE TRUE,
               packages, None, FALSE,
               <<<<"render", CPUFREQUTILS>>, <<"set_resource", CPUFREQUTILS>>>>
               \o (IF is_container THEN <<>> ELSE <<<<"systemctl", "mask">>>>)
               \o service_restart("cpufrequtils", fail))

update_cpufreq(t, fail) ==
    LET context == [governor |-> governor]
        written == fs_write(fs, CPUFREQUTILS, render(CPUFREQUTILS_TMPL, context))
        recorded == set_resource(db, CPUFREQUTILS, t)
        rendered == <<<<"render", CPUFREQUTILS>>, <<"set_resource", CPUFREQUTILS>>>>
        restart == service_restart("cpufrequtils", fail)
    IN  /\ Clock(t)
        /\ fail \in {"none", "render", "restart"}
        /\ IF governor \notin {"", "performance", "powersave"}
           THEN Do("update_cpufreq", None, t, fs, db, ondemand_masked, packages,
                   None, FALSE, <<>>)
           ELSE IF fail = "render"
           THEN Do("update_cpufreq", None, t, fs, db, ondemand_masked, packages,
                   None, TRUE, <<>>)
           ELSE IF ~is_container
           THEN Do("update_cpufreq", None, t, written, recorded, governor # "",
                   packages, None, FALSE,
                   rendered
                   \o <<<<"systemctl", IF governor # "" THEN "mask" ELSE "unmask">>>>
                   \o restart)
           ELSE Do("update_cpufreq", None, t, written, recorded, ondemand_masked,
                   packages, None, FALSE, rendered \o restart)

\* Mutant: the service is restarted before the change is recorded.
update_irqbalance_restart_first(t, fail) ==
    LET context == IF irqbalance_banned_cpus # ""
                   THEN [irqbalance_banned_cpus |-> irqbalance_banned_cpus]
                   ELSE <<>>
    IN  /\ Clock(t)
        /\ fail \in {"none", "render", "restart"}
        /\ IF fail = "render"
           THEN Do("update_irqbalance", None, t, fs, db, ondemand_masked, packages,
                   None, TRUE, <<>>)
           ELSE Do("update_irqbalance", None, t,
                   fs_write(fs, IRQBALANCE_CONF, render(IRQBALANCE_CONF_TMPL, context)),
                   set_resource(db, IRQBALANCE_CONF, t),
                   ondemand_masked, packages, None, FALSE,
                   <<<<"render", IRQBALANCE_CONF>>>>
                   \o service_restart("irqbalance", fail)
                   \o <<<<"set_resource", IRQBALANCE_CONF>>>>)

update_irqbalance(t, fail) ==
    LET context == IF irqbalance_banned_cpus # ""
                   THEN [irqbalance_banned_cpus |-> irqbalance_banned_cpus]
                   ELSE <<>>
    IN  /\ Clock(t)
        /\ fail \in {"none", "render", "restart"}
        /\ IF fail = "render"
           THEN Do("update_irqbalance", None, t, fs, db, ondemand_masked, packages,
                   None, TRUE, <<>>)
           ELSE Do("update_irqbalance", None, t,
                   fs_write(fs, IRQBALANCE_CONF, render(IRQBALANCE_CONF_TMPL, context)),
                   set_resource(db, IRQBALANCE_CONF, t),
                   ondemand_masked, packages, None, FALSE,
                   <<<<"render", IRQBALANCE_CONF>>,
                     <<"set_resource", IRQBALANCE_CONF>>>>
                   \o service_restart("irqbalance", fail))


remove_grub_configuration(t, fail) ==
    LET removed == fs_remove(fs, GRUB_CONF)
    IN  /\ Clock(t)
        /\ fail \in {"none", "update-grub"}
        /\ IF ~exists(GRUB_CONF)
           THEN Do("remove_grub_configuration", None, t, fs, db, ondemand_masked,
                   packages, None, FALSE, <<>>)
           ELSE IF _update_grub_runs /\ fail = "update-grub"
           THEN Do("remove_grub_configuration", None, t, removed, db, ondemand_masked,
                   packages, None, TRUE, <<<<"remove", GRUB_CONF>>>>)
           ELSE Do("remove_grub_configuration", None, t, removed,
                   set_resource(db, GRUB_CONF, t), ondemand_masked, packages,
                   None, FALSE,
                   <<<<"remove", GRUB_CONF>>>>
                   \o (IF _update_grub_runs
                       THEN <<<<"check_call", "update-grub">>>> ELSE <<>>)
                   \o <<<<"set_resource", GRUB_CONF>>>>)

\* Mutant: the file is rendered with _render_resource, which records nothing.
remove_systemd_configuration_untracked(t, fail) ==
    /\ Clock(t)
    /\ fail \in {"none", "render"}
    /\ Do("remove_systemd_configuration", None, t,
          fs_write(fs, SYSTEMD_SYSTEM, render(SYSTEMD_SYSTEM_TMPL, <<>>)),
          db, ondemand_masked, packages, None, FALSE,
          <<<<"render", SYSTEMD_SYSTEM>>>>)

remove_systemd_configuration(t, fail) ==
    /\ Clock(t)
    /\ fail \in {"none", "render"}
    /\ IF fail = "render"
       THEN Do("remove_systemd_configuration", None, t, fs, db, ondemand_masked,
               packages, None, TRUE, <<>>)
       ELSE Do("remove_systemd_configuration", None, t,
               fs_write(fs, SYSTEMD_SYSTEM, render(SYSTEMD_SYSTEM_TMPL, <<>>)),
               set_resource(db, SYSTEMD_SYSTEM, t),
               ondemand_masked, packages, None, FALSE,
               <<<<"render", SYSTEMD_SYSTEM>>, <<"set_resource", SYSTEMD_SYSTEM>>>>)

remove_resolved_configuration(t, fail) ==
    _update_systemd_resolved("remove_resolved_configuration", t, <<>>, fail)

remove_cpufreq_configuration(t, fail) ==
    LET unmask == IF is_container THEN <<>> ELSE <<<<"systemctl", "unmask">>>>
        masked == IF is_container THEN ondemand_masked ELSE FALSE
    IN  /\ Clock(t)
        /\ fail \in {"none", "render", "restart"}
        /\ IF fail = "render"
           THEN Do("remove_cpufreq_configuration", None, t, fs, db, masked, packages,
                   None, TRUE, unmask)
           ELSE Do("remove_cpufreq_configuration", None, t,
                   fs_write(fs, CPUFREQUTILS, render(CPUFREQUTILS_TMPL, <<>>)),
                   set_resource(db, CPUFREQUTILS, t),
                   masked, packages, None, FALSE,
                   unmask
                   \o <<<<"render", CPUFREQUTILS>>, <<"set_resource", CPUFREQUTILS>>>>
                   \o service_restart("cpufrequtils", fail))

remove_irqbalance_configuration(t, fail) ==
    /\ Clock(t)
    /\ fail \in {"none", "render", "restart"}
    /\ IF fail = "render"
       THEN Do("remove_irqbalance_configuration", None, t, fs, db, ondemand_masked,
               packages, None, TRUE, <<>>)
       ELSE Do("remove_irqbalance_configuration", None, t,
               fs_write(fs, IRQBALANCE_CONF, render(IRQBALANCE_CONF_TMPL, <<>>)),
               set_resource(db, IRQBALANCE_CONF, t),
               ondemand_masked, packages, None, FALSE,
               <<<<"render", IRQBALANCE_CONF>>,
                 <<"set_resource", IRQBALANCE_CONF>>>>
               \o service_restart("irqbalance", fail))

(***************************************************************************)
(* The initial state: a freshly booted machine with the packaged files     *)
(* and an empty store; the charm holds its default configuration.          *)
(***************************************************************************)
Packaged == {SYSTEMD_SYSTEM, SYSTEMD_RESOLVED, IRQBALANCE_CONF}

Init ==
    /\ now = 1
    /\ boot = 1
    /\ db = <<>>
    /\ fs = [path \in Packaged |-> Foreign]
    /\ config = DefaultConfig
    /\ is_container \in BOOLEAN
    /\ uname_release = KernelA
    /\ packages = {<<"linux-image", KernelA>>}
    /\ ondemand_masked = FALSE
    /\ cutoff_fs = fs
    /\ last = [op |-> "init", args |-> None, ret |-> None, raised |-> FALSE,
               calls |-> <<>>]


(***************************************************************************)
(* SpecBoot: change tracking.  The grub fragment and the irqbalance file   *)
(* are written, removed and edited; the machine reboots; the operator      *)
(* acknowledges; the tracker is queried.                                   *)
(***************************************************************************)
BootFiles == {GRUB_CONF, IRQBALANCE_CONF}
BootResources == {GRUB_CONF, IRQBALANCE_CONF, KERNEL}
Times == 1..MaxTime

NextBoot ==
    \/ \E t \in Times : Reboot(t, uname_release) /\ UNCHANGED cutoff_fs
    \/ \E t \in Times : clear_notification(t) /\ UNCHANGED cutoff_fs
    \/ \E t \in Times, path \in BootFiles : ExternalEdit(t, path, Foreign)
    \/ \E t \in Times : update_grub_file(t, "none")
    \/ \E t \in Times : remove_grub_configuration(t, "none")
    \/ \E t \in Times : update_irqbalance(t, "none")
    \/ \E t \in Times, name \in BootResources : Call_checksum_changed(t, name)
    \/ \E t \in Times, resource_names \in SUBSET BootResources :
            resources_changed_since_boot(t, resource_names)

\* No call of this specification reads is_container.
InitBoot == Init /\ ~is_container

SpecBoot == InitBoot /\ [][NextBoot]_vars


(***************************************************************************)
(* SpecAck: writes, reboots, acknowledgments and queries only.             *)
(***************************************************************************)
NextAck ==
    \/ \E t \in Times : Reboot(t, uname_release) /\ UNCHANGED cutoff_fs
    \/ \E t \in Times : clear_notification(t) /\ UNCHANGED cutoff_fs
    \/ \E t \in Times : update_grub_file(t, "none")
    \/ \E t \in Times : update_irqbalance(t, "none")
    \/ \E t \in Times, resource_names \in SUBSET BootFiles :
            resources_changed_since_boot(t, resource_names)

SpecAck == InitBoot /\ [][NextAck]_vars


(***************************************************************************)
(* SpecQuery: SpecAck with files rewritten by something other than the     *)
(* charm.                                                                  *)
(***************************************************************************)
NextQuery ==
    \/ \E t \in Times : Reboot(t, uname_release) /\ UNCHANGED cutoff_fs
    \/ \E t \in Times : clear_notification(t) /\ UNCHANGED cutoff_fs
    \/ \E t \in Times, path \in BootFiles : ExternalEdit(t, path, Foreign)
    \/ \E t \in Times : update_grub_file(t, "none")
    \/ \E t \in Times : update_irqbalance(t, "none")
    \/ \E t \in Times, resource_names \in SUBSET BootFiles :
            resources_changed_since_boot(t, resource_names)

SpecQuery == InitBoot /\ [][NextQuery]_vars


(***************************************************************************)
(* SpecCutoff: the reconciler's own writes and the queries, with the       *)
(* history variable cutoff_fs taken at every reboot and every              *)
(* acknowledgment.                                                         *)
(***************************************************************************)
NextCutoff ==
    \/ \E t \in Times : Reboot(t, uname_release) /\ cutoff_fs' = fs
    \/ \E t \in Times : clear_notification(t) /\ cutoff_fs' = fs
    \/ \E t \in Times, value \in Range(OptionValues["irqbalance-banned-cpus"]) :
            ConfigChanged(t, "irqbalance-banned-cpus", value)
    \/ \E t \in Times : update_grub_file(t, "none")
    \/ \E t \in Times : remove_grub_configuration(t, "none")
    \/ \E t \in Times : update_irqbalance(t, "none")
    \/ \E t \in Times, resource_names \in SUBSET BootFiles :
            resources_changed_since_boot(t, resource_names)

SpecCutoff == InitBoot /\ [][NextCutoff]_vars


(***************************************************************************)
(* Spec: reconciliation.  The charm runs its update_* methods in any       *)
(* order while the operator changes what two of them render.               *)
(***************************************************************************)
Next ==
    \/ \E t \in Times, value \in {"", "performance"} :
            ConfigChanged(t, "governor", value)
    \/ \E t \in Times, value \in Range(OptionValues["cpu-affinity-range"]) :
            ConfigChanged(t, "cpu-affinity-range", value)
    \/ \E t \in Times : update_grub_file(t, "none")
    \/ \E t \in Times : update_systemd_system_file(t, "none")
    \/ \E t \in Times : update_systemd_resolved(t, "none")
    \/ \E t \in Times : update_cpufreq(t, "none")
    \/ \E t \in Times : update_irqbalance(t, "none")

Spec == Init /\ [][Next]_vars


(***************************************************************************)
(* SpecValid: validation.  The operator sets the enumerated options to     *)
(* values inside and outside their allowed sets; the charm validates the   *)
(* configuration and runs the update_* methods that read those options.    *)
(***************************************************************************)
EnumeratedOptions ==
    {"reservation", "raid-autodetection", "governor", "resolved-cache-mode"}

Call_is_config_valid(t) ==
    /\ Clock(t)
    /\ Do("is_config_valid", None, t, fs, db, ondemand_masked, packages,
          is_config_valid, FALSE, <<>>)

NextValid ==
    \/ \E t \in Times, option \in EnumeratedOptions :
            \E value \in {OptionValues[option][1], "bogus"} :
                ConfigChanged(t, option, value)
    \/ \E t \in Times : Call_is_config_valid(t)
    \/ \E t \in Times : update_grub_file(t, "none")
    \/ \E t \in Times : update_systemd_resolved(t, "none")
    \/ \E t \in Times : update_cpufreq(t, "none")

SpecValid == InitBoot /\ [][NextValid]_vars


(***************************************************************************)
(* SpecRemove: removal.  The grub fragment is written and every remove_*   *)
(* method is called, in and outside a container, with update-grub on or    *)
(* off and with the external commands succeeding or failing.               *)
(***************************************************************************)
NextRemove ==
    \/ \E t \in Times, value \in BOOLEAN : ConfigChanged(t, "update-grub", value)
    \/ \E t \in Times : update_grub_file(t, "none")
    \/ \E t \in Times, fail \in Failures : remove_grub_configuration(t, fail)
    \/ \E t \in Times, fail \in Failures : remove_systemd_configuration(t, fail)
    \/ \E t \in Times, fail \in Failures : remove_resolved_configuration(t, fail)
    \/ \E t \in Times, fail \in Failures : remove_cpufreq_configuration(t, fail)
    \/ \E t \in Times, fail \in Failures : remove_irqbalance_configuration(t, fail)

SpecRemove == Init /\ [][NextRemove]_vars


(***************************************************************************)
(* SpecFail: failures.  Outside a container, every method that records a   *)
(* change is called with its external commands succeeding or failing; the  *)
(* clock advances with every call.                                         *)
(***************************************************************************)
NextFail ==
    \/ \E t \in {now + 1}, value \in {"", KernelB} :
            ConfigChanged(t, "kernel-version", value)
    \/ \E t \in {now + 1}, value \in BOOLEAN : ConfigChanged(t, "update-grub", value)
    \/ \E t \in {now + 1}, fail \in Failures : update_grub_file(t, fail)
    \/ \E t \in {now + 1}, fail \in Failures : update_systemd_system_file(t, fail)
    \/ \E t \in {now + 1}, fail \in Failures : update_cpufreq(t, fail)
    \/ \E t \in {now + 1}, fail \in Failures : update_irqbalance(t, fail)
    \/ \E t \in {now + 1}, fail \in Failures : install_configured_kernel(t, fail)
    \/ \E t \in {now + 1}, fail \in Failures : remove_grub_configuration(t, fail)
    \/ \E t \in {now + 1}, fail \in Failures : remove_systemd_configuration(t, fail)
    \/ \E t \in {now + 1}, fail \in Failures : remove_cpufreq_configuration(t, fail)
    \/ \E t \in {now + 1}, fail \in Failures : remove_irqbalance_configuration(t, fail)

SpecFail == InitBoot /\ [][NextFail]_vars


(***************************************************************************)
(* SpecKernel: the kernel package.  The operator sets kernel-version, the  *)
(* charm installs the configured kernel, and the machine reboots into its  *)
(* running kernel or an installed one.                                     *)
(***************************************************************************)
NextKernel ==
    \/ \E t \in Times, value \in Range(OptionValues["kernel-version"]) :
            ConfigChanged(t, "kernel-version", value)
    \/ \E t \in Times : install_configured_kernel(t, "none")
    \/ \E t \in Times, release \in {KernelA, KernelB} :
            Reboot(t, release) /\ UNCHANGED cutoff_fs

SpecKernel == InitBoot /\ [][NextKernel]_vars


(***************************************************************************)
(* SpecGovernor: the CPU governor.  In and outside a container, the        *)
(* operator sets the governor and the charm applies or removes the         *)
(* cpufrequtils configuration; the restart of the service may fail.        *)
(***************************************************************************)
NextGovernor ==
    \/ \E t \in Times, value \in Range(OptionValues["governor"]) :
            ConfigChanged(t, "governor", value)
    \/ \E t \in Times, fail \in {"none", "restart"} : update_cpufreq(t, fail)
    \/ \E t \in Times, fail \in {"none", "restart"} :
            remove_cpufreq_configuration(t, fail)

SpecGovernor == Init /\ [][NextGovernor]_vars


(***************************************************************************)
(* Grub texts.  A text is a sequence of symbols, each standing for a       *)
(* stretch of characters: "root=UUID=", "root=LABEL=", a UUID, a label or  *)
(* other text.  A blkid mapping is a dict in insertion order: a sequence   *)
(* of <<uuid, label>> pairs with distinct UUIDs, each a text.              *)
(***************************************************************************)
\* str.replace(old, new): every non-overlapping occurrence, from the left.
RECURSIVE str_replace(_, _, _)
str_replace(content, old, new) ==
    IF Len(content) < Len(old)
    THEN content
    ELSE IF SubSeq(content, 1, Len(old)) = old
    THEN new \o str_replace(SubSeq(content, Len(old) + 1, Len(content)), old, new)
    ELSE <<Head(content)>> \o str_replace(Tail(content), old, new)

\* Mutant: only the first occurrence is replaced.
RECURSIVE _replace_first_uuid_with_label(_, _)
_replace_first_uuid_with_label(content, blkid_mapping) ==
    IF blkid_mapping = <<>>
    THEN content
    ELSE LET old == <<"root=UUID=">> \o Head(blkid_mapping)[1]
             first == CHOOSE i \in 1..(Len(content) + 1) :
                        /\ i = Len(content) + 1
                           \/ (i + Len(old) - 1 <= Len(content)
                               /\ SubSeq(content, i, i + Len(old) - 1) = old)
                        /\ \A j \in 1..(i - 1) :
                            ~(j + Len(old) - 1 <= Len(content)
                              /\ SubSeq(content, j, j + Len(old) - 1) = old)
             replaced ==
                IF first = Len(content) + 1
                THEN content
                ELSE SubSeq(content, 1, first - 1)
                     \o <<"root=LABEL=">> \o Head(blkid_mapping)[2]
                     \o SubSeq(content, first + Len(old), Len(content))
         IN  _replace_first_uuid_with_label(replaced, Tail(blkid_mapping))

RECURSIVE _replace_uuids_with_labels(_, _)
_replace_uuids_with_labels(content, blkid_mapping) ==
    IF blkid_mapping = <<>>
    THEN content
    ELSE _replace_uuids_with_labels(
            str_replace(content,
                        <<"root=UUID=">> \o Head(blkid_mapping)[1],
                        <<"root=LABEL=">> \o Head(blkid_mapping)[2]),
            Tail(blkid_mapping))

Call__replace_uuids_with_labels(content, blkid_mapping) ==
    /\ last' = Call("_replace_uuids_with_labels",
                    [content |-> content, blkid_mapping |-> blkid_mapping],
                    _replace_uuids_with_labels(content, blkid_mapping), FALSE, <<>>)
    /\ UNCHANGED <<now, boot, db, fs, config, is_container, uname_release, packages,
                   ondemand_masked, cutoff_fs>>

(***************************************************************************)
(* SpecUuid: _replace_uuids_with_labels on every text of up to MaxText     *)
(* symbols and every mapping of the UUIDs to labels.                       *)
(***************************************************************************)
MaxText == 4

Uuids == {<<"u1">>, <<"u2">>}
Labels == {<<"l1">>, <<"l2">>}
Symbols == {"root=UUID=", "UUID=", "u1", "u2", "ro"}

TextsUpTo(n) == UNION {[1..k -> Symbols] : k \in 0..n}

\* The mappings: sequences of <<uuid, label>> pairs with distinct UUIDs.
Mappings ==
    LET pairs == {<<u, l>> : u \in Uuids, l \in Labels}
    IN  {<<>>}
        \cup {<<p>> : p \in pairs}
        \cup {<<pq[1], pq[2]>> : pq \in {x \in pairs \X pairs : x[1][1] # x[2][1]}}

\* One call per behaviour: the function reads and changes no state.
NextUuid ==
    /\ last.op = "init"
    /\ \E content \in TextsUpTo(MaxText), blkid_mapping \in Mappings :
            Call__replace_uuids_with_labels(content, blkid_mapping)

SpecUuid == InitBoot /\ [][NextUuid]_vars


(***************************************************************************)
(* check_update_grub.  grub_mkconfig_ok is whether grub-mkconfig exits     *)
(* with status 0, generated the text it writes to tmp_output, grub_cfg the *)
(* text of /boot/grub/grub.cfg and blkid_mapping what blkid reports.  The  *)
(* result is the pair the function returns and the text it leaves in       *)
(* tmp_output.                                                             *)
(***************************************************************************)
NoGrubUpdates == "No available grub updates found."
FoundGrubUpdates == "Found available grub updates."
UnableToCheck == "Unable to check update-grub"

\* filecmp.cmp of two files that exist: equal contents.
filecmp(f1, f2) == f1 = f2

\* Mutant: the candidate is compared as generated, never rewritten.
check_update_grub_as_generated(grub_mkconfig_ok, grub_cfg, generated, blkid_mapping) ==
    IF ~grub_mkconfig_ok
    THEN [ret |-> <<FALSE, UnableToCheck>>, tmp_output |-> <<>>]
    ELSE IF ~filecmp(grub_cfg, generated)
    THEN [ret |-> <<TRUE, FoundGrubUpdates>>, tmp_output |-> generated]
    ELSE [ret |-> <<FALSE, NoGrubUpdates>>, tmp_output |-> generated]

check_update_grub(grub_mkconfig_ok, grub_cfg, generated, blkid_mapping) ==
    IF ~grub_mkconfig_ok
    THEN [ret |-> <<FALSE, UnableToCheck>>, tmp_output |-> <<>>]
    ELSE IF ~filecmp(grub_cfg, generated)
    THEN LET content_reformatted == _replace_uuids_with_labels(generated, blkid_mapping)
         IN  IF ~filecmp(grub_cfg, content_reformatted)
             THEN [ret |-> <<TRUE, FoundGrubUpdates>>, tmp_output |-> content_reformatted]
             ELSE [ret |-> <<FALSE, NoGrubUpdates>>, tmp_output |-> content_reformatted]
    ELSE [ret |-> <<FALSE, NoGrubUpdates>>, tmp_output |-> generated]

Call_check_update_grub(grub_mkconfig_ok, grub_cfg, generated, blkid_mapping) ==
    LET result == check_update_grub(grub_mkconfig_ok, grub_cfg, generated, blkid_mapping)
    IN  /\ last' = Call("check_update_grub",
                        [grub_mkconfig_ok |-> grub_mkconfig_ok, grub_cfg |-> grub_cfg,
                         generated |-> generated, blkid_mapping |-> blkid_mapping,
                         tmp_output |-> result.tmp_output],
                        result.ret, FALSE, <<<<"grub-mkconfig">>>>)
        /\ UNCHANGED <<now, boot, db, fs, config, is_container, uname_release, packages,
                       ondemand_masked, cutoff_fs>>

(***************************************************************************)
(* SpecGrubCheck: check_update_grub on every existing and generated grub   *)
(* text of up to MaxGrubText symbols, with and without a mapping for the   *)
(* UUID, grub-mkconfig succeeding or failing.                              *)
(***************************************************************************)
MaxGrubText == 2

GrubSymbols == {"root=UUID=", "root=LABEL=", "u1", "l1", "ro"}

GrubTextsUpTo(n) == UNION {[1..k -> GrubSymbols] : k \in 0..n}

GrubMappings == {<<>>, <<<<<<"u1">>, <<"l1">>>>>>}

\* One call per behaviour: the function reads and changes no state of the charm.
NextGrubCheck ==
    /\ last.op = "init"
    /\ \E grub_mkconfig_ok \in BOOLEAN, grub_cfg \in GrubTextsUpTo(MaxGrubText),
          generated \in GrubTextsUpTo(MaxGrubText), blkid_mapping \in GrubMappings :
            Call_check_update_grub(grub_mkconfig_ok, grub_cfg, generated, blkid_mapping)

SpecGrubCheck == InitBoot /\ [][NextGrubCheck]_vars


(***************************************************************************)
(* SpecFlags: parse_config_flags on every string of up to MaxFlags         *)
(* characters over FlagChars, and on the examples of its docstring.  In    *)
(* the examples a word of the docstring is one element of the sequence: a  *)
(* stretch of characters none of which is a comma, an equals sign, a       *)
(* double quote or whitespace.                                             *)
(***************************************************************************)
MaxFlags == 5

FlagChars == {"a", "b", "=", ",", "\"", " "}

FlagStringsUpTo(n) == UNION {[1..k -> FlagChars] : k \in 0..n}

\* 'key1=val1, key2=val2,val3,val4'
DocExample2 ==
    <<"key1", "=", "val1", ",", " ", "key2", "=", "val2", ",", "val3", ",", "val4">>
\* 'key1="subkey1=val1,val2 subkey2=val3"'
DocExample3 ==
    <<"key1", "=", "\"", "subkey1", "=", "val1", ",", "val2", " ", "subkey2", "=",
      "val3", "\"">>

Call_parse_config_flags(flags) ==
    /\ last' = Call("parse_config_flags", [config_flags |-> flags],
                    parse_config_flags(flags), FALSE, <<>>)
    /\ UNCHANGED <<now, boot, db, fs, config, is_container, uname_release, packages,
                   ondemand_masked, cutoff_fs>>

\* One call per behaviour: the function reads and changes no state.
NextFlags ==
    /\ last.op = "init"
    /\ \E flags \in FlagStringsUpTo(MaxFlags) \cup {DocExample2, DocExample3} :
            Call_parse_config_flags(flags)

SpecFlags == InitBoot /\ [][NextFlags]_vars


(***************************************************************************)
(* SpecRecord: the two writers of a resource's record, called on their     *)
(* own.  The irqbalance file exists and is edited, the grub fragment does  *)
(* not exist, the kernel is no file; the operator acknowledges.            *)
(***************************************************************************)
Call_set_resource(t, resource_name) ==
    /\ Clock(t)
    /\ Do("set_resource", resource_name, t, fs, set_resource(db, resource_name, t),
          ondemand_masked, packages, None, FALSE, <<>>)

Call_update_resource_checksums(t, resources) ==
    /\ Clock(t)
    /\ Do("update_resource_checksums", resources, t, fs,
          update_resource_checksums(db, resources),
          ondemand_masked, packages, None, FALSE, <<>>)

NextRecord ==
    \/ \E t \in Times : clear_notification(t) /\ UNCHANGED cutoff_fs
    \/ \E t \in Times : ExternalEdit(t, IRQBALANCE_CONF, Reformatted(fs[IRQBALANCE_CONF]))
    \/ \E t \in Times, resource_name \in BootResources :
            Call_set_resource(t, resource_name)
    \/ \E t \in Times, resources \in SUBSET BootResources :
            Call_update_resource_checksums(t, resources)

SpecRecord == InitBoot /\ [][NextRecord]_vars


(***************************************************************************)
(* SpecWrite: the five update_* methods that render a file, on a machine   *)
(* or in a container, with update-grub switched on and off and the         *)
(* resolver's cache mode changed; a service restart may fail.              *)
(***************************************************************************)
NextWrite ==
    \/ \E t \in Times, value \in BOOLEAN : ConfigChanged(t, "update-grub", value)
    \/ \E t \in Times, value \in {"", "yes"} :
            ConfigChanged(t, "resolved-cache-mode", value)
    \/ \E t \in Times : update_grub_file(t, "none")
    \/ \E t \in Times : update_systemd_system_file(t, "none")
    \/ \E t \in Times, fail \in {"none", "restart"} : update_systemd_resolved(t, fail)
    \/ \E t \in Times, fail \in {"none", "restart"} : update_cpufreq(t, fail)
    \/ \E t \in Times, fail \in {"none", "restart"} : update_irqbalance(t, fail)

SpecWrite == Init /\ [][NextWrite]_vars


(***************************************************************************)
(* SpecSystemd: update_systemd_system_file while the operator changes what *)
(* it renders and something else rewrites /etc/systemd/system.conf, with   *)
(* other settings or with the same settings in another order or            *)
(* formatting.                                                             *)
(***************************************************************************)
NextSystemd ==
    \/ \E t \in Times, value \in Range(OptionValues["cpu-affinity-range"]) :
            ConfigChanged(t, "cpu-affinity-range", value)
    \/ \E t \in Times, value \in Range(OptionValues["systemd-config-flags"]) :
            ConfigChanged(t, "systemd-config-flags", value)
    \/ \E t \in Times : ExternalEdit(t, SYSTEMD_SYSTEM, Foreign)
    \/ \E t \in Times : ExternalEdit(t, SYSTEMD_SYSTEM, Reformatted(fs[SYSTEMD_SYSTEM]))
    \/ \E t \in Times : update_systemd_system_file(t, "none")

SpecSystemd == InitBoot /\ [][NextSystemd]_vars


(***************************************************************************)
(* SpecResolved: the resolver's file.  The operator changes the cache      *)
(* mode, the charm renders the file with the mode or without it, something *)
(* else rewrites the file; a render or a restart may fail.                 *)
(***************************************************************************)
NextResolved ==
    \/ \E t \in Times, value \in {"", "yes", "no"} :
            ConfigChanged(t, "resolved-cache-mode", value)
    \/ \E t \in Times : ExternalEdit(t, SYSTEMD_RESOLVED, Foreign)
    \/ \E t \in Times, fail \in {"none", "render", "restart"} :
            update_systemd_resolved(t, fail)
    \/ \E t \in Times, fail \in {"none", "render", "restart"} :
            remove_resolved_configuration(t, fail)

SpecResolved == InitBoot /\ [][NextResolved]_vars


(***************************************************************************)
(* SpecRange: the operator sets the two CPU range options and the two      *)
(* deprecated ones behind them; the properties are read.                   *)
(***************************************************************************)
Call_cpu_affinity_range(t) ==
    /\ Clock(t)
    /\ Do("cpu_affinity_range", None, t, fs, db, ondemand_masked, packages,
          cpu_affinity_range, FALSE, <<>>)

Call_isolcpus(t) ==
    /\ Clock(t)
    /\ Do("isolcpus", None, t, fs, db, ondemand_masked, packages,
          isolcpus, FALSE, <<>>)

RangeOptions == {"reservation", "cpu-range", "cpu-affinity-range", "isolcpus"}

NextRange ==
    \/ \E t \in Times, option \in RangeOptions :
            \E value \in Range(OptionValues[option]) : ConfigChanged(t, option, value)
    \/ \E t \in Times : Call_cpu_affinity_range(t)
    \/ \E t \in Times : Call_isolcpus(t)

SpecRange == InitBoot /\ [][NextRange]_vars


(***************************************************************************)
(* check_grub_reboot.  update_grub is the flag check_update_grub returned  *)
(* in the call.                                                            *)
(***************************************************************************)
\* Mutant: the acknowledgment is taken as resources_changed_since_boot takes
\* it, together with the boot time.
check_grub_reboot_since_boot(update_grub) ==
    IF get_resource_changed_timestamp(GRUB_CONF) < acknowledged_ts
    THEN FALSE
    ELSE update_grub

check_grub_reboot(update_grub) ==
    IF /\ ~clear_notification_time_is_none
       /\ clear_notification_time > get_resource_changed_timestamp(GRUB_CONF)
    THEN FALSE
    ELSE update_grub

Call_check_grub_reboot(t, grub_mkconfig_ok, grub_cfg, generated, blkid_mapping) ==
    LET result == check_update_grub(grub_mkconfig_ok, grub_cfg, generated, blkid_mapping)
    IN  /\ Clock(t)
        /\ Do("check_grub_reboot",
              [grub_mkconfig_ok |-> grub_mkconfig_ok, grub_cfg |-> grub_cfg,
               generated |-> generated, blkid_mapping |-> blkid_mapping],
              t, fs, db, ondemand_masked, packages,
              check_grub_reboot(result.ret[1]), FALSE, <<<<"grub-mkconfig">>>>)

(***************************************************************************)
(* SpecGrubReboot: the grub fragment is written, the operator              *)
(* acknowledges, the machine reboots, and check_grub_reboot is called with *)
(* grub-mkconfig failing or generating one of a few texts.                 *)
(***************************************************************************)
GrubExamples == {<<"root=UUID=", "u1">>, <<"root=LABEL=", "l1">>}

NextGrubReboot ==
    \/ \E t \in Times : Reboot(t, uname_release) /\ UNCHANGED cutoff_fs
    \/ \E t \in Times : clear_notification(t) /\ UNCHANGED cutoff_fs
    \/ \E t \in Times : update_grub_file(t, "none")
    \/ \E t \in Times, grub_mkconfig_ok \in BOOLEAN, grub_cfg \in GrubExamples,
          generated \in GrubExamples, blkid_mapping \in GrubMappings :
            Call_check_grub_reboot(t, grub_mkconfig_ok, grub_cfg, generated,
                                   blkid_mapping)

SpecGrubReboot == InitBoot /\ [][NextGrubReboot]_vars


(***************************************************************************)
(* Vocabulary of the claims.                                               *)
(***************************************************************************)
IsQuery(call) == call.op = "resources_changed_since_boot"

\* changed_at of r is strictly after EffectiveCutoff.
TimeChanged(r) == acknowledged_ts < get_resource_changed_timestamp(r)
\* r's file exists and its checksum is not the recorded one (or none is recorded).
Drifted(r) ==
    exists(r) /\ get_resource_sha256sum(r) # calculate_resource_sha256sum(r)
\* No checksum is recorded for r, or its file's checksum is not the recorded one.
CsumChanged(r) == get_resource_sha256sum(r) = None \/ Drifted(r)
\* r's record in store d: its changed_at and its checksum, where set.
Record(d, r) ==
    [k \in {key_for(r), sha256sum_key(r)} \cap DOMAIN d |-> d[k]]
\* The content of path in filesystem f; <<>> when there is no such file.
ContentOf(f, path) == IF path \in DOMAIN f THEN f[path] ELSE <<>>
\* The effects a call completed.
Effects(call) == Range(call.calls)

(***************************************************************************)
(* C1.  Original statement: calling an update_* method twice in a row with *)
(* unchanged desired configuration performs the file write, the            *)
(* set_resource call and the restart or update action only on the first    *)
(* call; the second call writes nothing, records nothing and restarts      *)
(* nothing.                                                                *)
(***************************************************************************)
UpdateOps ==
    {"update_grub_file", "update_systemd_system_file", "update_systemd_resolved",
     "update_cpufreq", "update_irqbalance"}

\* This step is a second call in a row of the update_* method op: the call
\* before it was of the same method, it returned, and the configuration has
\* not changed since.
SecondInARow(op) ==
    /\ last.op = op
    /\ ~last.raised
    /\ last'.op = op
    /\ config' = config

ResourceOf(op) ==
    CASE op = "update_grub_file" -> GRUB_CONF
      [] op = "update_cpufreq" -> CPUFREQUTILS
      [] op = "update_irqbalance" -> IRQBALANCE_CONF

C2_ChecksumCatchUp ==
    [][IsQuery(last') =>
        \A r \in last'.args :
            (Drifted(r) /\ ~TimeChanged(r)) =>
                /\ ~last'.raised
                /\ r \notin last'.ret
                /\ sha256sum_key(r) \in DOMAIN db'
                /\ db'[sha256sum_key(r)] = calculate_resource_sha256sum(r)]_vars

\* C2 holds of every call that returns: it fails only when the call raises.
C2_CatchUpWhenReturned ==
    [][(IsQuery(last') /\ ~last'.raised) =>
        \A r \in last'.args :
            (Drifted(r) /\ ~TimeChanged(r)) =>
                /\ r \notin last'.ret
                /\ sha256sum_key(r) \in DOMAIN db'
                /\ db'[sha256sum_key(r)] = calculate_resource_sha256sum(r)]_vars

(***************************************************************************)
(* C3.  resources_changed_since_boot returns exactly the resources of its  *)
(* input that are time-changed and checksum-changed.                       *)
(***************************************************************************)
C3_ReturnsExactlyChanged ==
    [][IsQuery(last') =>
        /\ ~last'.raised
        /\ last'.ret = {r \in last'.args : TimeChanged(r) /\ CsumChanged(r)}]_vars

\* C3 holds of every call that returns: it fails only when the call raises.
C3_ExactWhenReturned ==
    [][(IsQuery(last') /\ ~last'.raised) =>
        last'.ret = {r \in last'.args : TimeChanged(r) /\ CsumChanged(r)}]_vars

(***************************************************************************)
(* C4.  A resource whose file's checksum equals the recorded one and whose *)
(* changed_at is not after EffectiveCutoff is not returned by              *)
(* resources_changed_since_boot, and the call leaves its record unchanged. *)
(***************************************************************************)
Settled(r) ==
    /\ exists(r)
    /\ get_resource_sha256sum(r) = calculate_resource_sha256sum(r)
    /\ ~TimeChanged(r)

C4_SettledExcluded ==
    [][IsQuery(last') =>
        \A r \in last'.args :
            Settled(r) =>
                /\ last'.raised \/ r \notin last'.ret
                /\ Record(db', r) = Record(db, r)]_vars

C4_Witness ==
    /\ IsQuery(last)
    /\ ~last.raised
    /\ \E r \in last.args :
        Settled(r) /\ db_has(key_for(r)) /\ r \notin last.ret


(***************************************************************************)
(* C5.  Original statement: a resource is returned by                      *)
(* resources_changed_since_boot only if its on-disk content differs from   *)
(* the content it had at EffectiveCutoff; a write after the cutoff of      *)
(* byte-identical content never causes it to be returned, even when no     *)
(* query ran between the cutoff and the write.  Stated of the resources    *)
(* whose file is there when the query runs, the case the claim singles     *)
(* out.                                                                    *)
(***************************************************************************)
ContentChangedSinceCutoff(r) == ContentOf(fs, r) # ContentOf(cutoff_fs, r)

C5_OnlyContentChangesReturned ==
    (IsQuery(last) /\ ~last.raised) =>
        \A r \in last.ret : exists(r) => ContentChangedSinceCutoff(r)

(***************************************************************************)
(* C5, as far as the code goes.  A resource is returned only if its        *)
(* changed_at is after EffectiveCutoff and either its content differs from *)
(* the content it had at the cutoff or the recorded checksum is not that   *)
(* of the content at the cutoff (none recorded, or recorded for other      *)
(* content): a write of byte-identical content is kept out of the result   *)
(* only if a query had recorded that content's checksum.                   *)
(***************************************************************************)
BaselinedAtCutoff(r) ==
    /\ r \in DOMAIN cutoff_fs
    /\ get_resource_sha256sum(r) = sha256(cutoff_fs[r])

C5_ReturnedOnlyIfChangedOrNotBaselined ==
    (IsQuery(last) /\ ~last.raised) =>
        \A r \in last.ret :
            /\ TimeChanged(r)
            /\ ContentChangedSinceCutoff(r) \/ ~BaselinedAtCutoff(r)

\* A file rewritten after the cutoff with the content it had, recorded and
\* queried: it is not returned.
C5_Witness ==
    /\ IsQuery(last)
    /\ ~last.raised
    /\ \E r \in last.args :
        /\ TimeChanged(r)
        /\ ~ContentChangedSinceCutoff(r)
        /\ BaselinedAtCutoff(r)
        /\ r \notin last.ret

(***************************************************************************)
(* C6.  Original statement: a resource with no recorded change timestamp   *)
(* is treated by the time test as changed since boot.                      *)
(***************************************************************************)
Unrecorded(r) == ~db_has(key_for(r))

C6_UnrecordedIsTimeChanged ==
    IsQuery(last) =>
        \A r \in last.args : Unrecorded(r) => r \in time_changed(last.args)

(***************************************************************************)
(* C6, amended.  A resource with no recorded change timestamp is treated   *)
(* as not changed since boot: the dawn-of-time default is earlier than     *)
(* every EffectiveCutoff, the time test yields false and                   *)
(* resources_changed_since_boot does not return the resource.              *)
(***************************************************************************)
C6_UnrecordedIsNotTimeChanged ==
    IsQuery(last) =>
        \A r \in last.args :
            Unrecorded(r) =>
                /\ r \notin time_changed(last.args)
                /\ last.raised \/ r \notin last.ret

C6_Witness ==
    /\ IsQuery(last)
    /\ ~last.raised
    /\ KERNEL \in last.args
    /\ Unrecorded(KERNEL)
    /\ KERNEL \notin last.ret

(***************************************************************************)
(* C7.  Write-then-acknowledge: after set_resource(R) later than the boot  *)
(* and with no acknowledgment, R is time-changed; after clear_notification *)
(* later than that write, R is not time-changed, and it stays so until the *)
(* next set_resource(R); resources_changed_since_boot does not return R in *)
(* between.                                                                *)
(***************************************************************************)
C7_WriteThenAcknowledge ==
    [][\A r \in BootResources :
        /\ ( /\ <<"set_resource", r>> \in Effects(last')
             /\ boot < now'
             /\ clear_notification_time_is_none )
           => TimeChanged(r)'
        /\ ( /\ last'.op = "clear_notification"
             /\ get_resource_changed_timestamp(r) < now' )
           => ~TimeChanged(r)'
        /\ ( /\ ~TimeChanged(r)
             /\ <<"set_resource", r>> \notin Effects(last') )
           => ~TimeChanged(r)'
        /\ ( /\ IsQuery(last')
             /\ r \in last'.args
             /\ ~TimeChanged(r) )
           => (last'.raised \/ r \notin last'.ret)]_vars

\* R was written after the boot, acknowledged later, and is queried.
C7_Witness ==
    /\ IsQuery(last)
    /\ ~last.raised
    /\ ~clear_notification_time_is_none
    /\ \E r \in last.args :
        /\ boot < get_resource_changed_timestamp(r)
        /\ get_resource_changed_timestamp(r) < clear_notification_time
        /\ r \notin last.ret

(***************************************************************************)
(* C8.  checksum_changed(name) returns true for every resource with no     *)
(* checksum on record, whether or not its file exists; with a checksum on  *)
(* record it returns true exactly when the file's freshly computed         *)
(* checksum differs from the recorded one.                                 *)
(***************************************************************************)
C8_ChecksumChanged ==
    last.op = "checksum_changed" =>
        LET r == last.args
            returned_true == ~last.raised /\ last.ret = TRUE
        IN  IF get_resource_sha256sum(r) = None
            THEN returned_true
            ELSE returned_true <=> Drifted(r)

C8_Witness ==
    /\ last.op = "checksum_changed"
    /\ get_resource_sha256sum(last.args) = None
    /\ ~exists(last.args)
    /\ ~last.raised
    /\ last.ret = TRUE

\* The other case of C8: a recorded checksum that the file still has.
C8_WitnessRecorded ==
    /\ last.op = "checksum_changed"
    /\ get_resource_sha256sum(last.args) # None
    /\ ~last.raised
    /\ last.ret = FALSE

(***************************************************************************)
(* C9.  A missing backing file never makes the change query fail: for any  *)
(* resource whose file does not exist, with or without a recorded          *)
(* checksum, resources_changed_since_boot returns, and leaves the          *)
(* resource's recorded checksum unchanged.                                 *)
(***************************************************************************)
C9_MissingFileNeverFails ==
    [][IsQuery(last') =>
        \A r \in last'.args :
            ~exists(r) =>
                /\ ~last'.raised
                /\ Record(db', r) = Record(db, r)]_vars


(***************************************************************************)
(* C10.  Original statement: when reservation, raid-autodetection,         *)
(* governor or resolved-cache-mode holds a value outside its allowed set,  *)
(* the update_* method that would render that value writes no file,        *)
(* records no change in BootResourceState and restarts no service.         *)
(***************************************************************************)
Allowed(option) ==
    CASE option = "reservation" -> {"off", "isolcpus", "affinity"}
      [] option = "raid-autodetection" -> {"", "noautodetect", "partitionable"}
      [] option = "governor" -> {"", "powersave", "performance"}
      [] option = "resolved-cache-mode" -> {"", "yes", "no", "no-negative"}

Invalid(option) == config[option] \notin Allowed(option)

\* The enumerated options each update_* method reads.
ReadBy(op) ==
    CASE op = "update_grub_file" -> {"reservation", "raid-autodetection"}
      [] op = "update_cpufreq" -> {"governor"}
      [] op = "update_systemd_resolved" -> {"resolved-cache-mode"}
      [] OTHER -> {}

C10_InvalidBlocksRendering ==
    [][\A op \in UpdateOps :
        (last'.op = op /\ \E option \in ReadBy(op) : Invalid(option)) =>
            /\ last'.calls = <<>>
            /\ fs' = fs
            /\ db' = db]_vars

(***************************************************************************)
(* C10, amended.  is_config_valid returns false whenever reservation,      *)
(* raid-autodetection, governor or resolved-cache-mode holds a value       *)
(* outside its allowed set, and of the update_* methods only               *)
(* update_cpufreq checks its option: with a governor outside the allowed   *)
(* set it writes no file, records no change and restarts no service.       *)
(* update_grub_file and update_systemd_resolved do not check: called with  *)
(* an invalid raid-autodetection or resolved-cache-mode they render the    *)
(* value into the file.                                                    *)
(***************************************************************************)
C10_OnlyCpufreqChecks ==
    [][/\ (last'.op = "is_config_valid"
            /\ \E option \in EnumeratedOptions : Invalid(option))
          => last'.ret = FALSE
       /\ (last'.op = "update_cpufreq" /\ Invalid("governor"))
          => /\ ~last'.raised
             /\ last'.calls = <<>>
             /\ fs' = fs
             /\ db' = db
             /\ ondemand_masked' = ondemand_masked
       /\ (last'.op = "update_grub_file" /\ Invalid("raid-autodetection"))
          => /\ <<"render", GRUB_CONF>> \in Effects(last')
             /\ fs'[GRUB_CONF].context.raid = config["raid-autodetection"]
       /\ (last'.op = "update_systemd_resolved" /\ Invalid("resolved-cache-mode"))
          => /\ <<"render", SYSTEMD_RESOLVED>> \in Effects(last')
             /\ fs'[SYSTEMD_RESOLVED].context.cache = config["resolved-cache-mode"]
      ]_vars

\* update_cpufreq was called with a governor outside the allowed set, on a
\* file an earlier call had rendered: the file is as it was.
C10_Witness ==
    /\ last.op = "update_cpufreq"
    /\ Invalid("governor")
    /\ last.calls = <<>>
    /\ exists(CPUFREQUTILS)
    /\ fs[CPUFREQUTILS].context.governor # config["governor"]


(***************************************************************************)
(* C11.  Original statement: every remove_* operation that changes         *)
(* on-disk state ends with set_resource recorded for its target, also when *)
(* the post-removal action (update-grub or service restart) fails.         *)
(***************************************************************************)
RemoveOps ==
    {"remove_grub_configuration", "remove_systemd_configuration",
     "remove_resolved_configuration", "remove_cpufreq_configuration",
     "remove_irqbalance_configuration"}

TargetOf(op) ==
    CASE op = "remove_grub_configuration" -> GRUB_CONF
      [] op = "remove_systemd_configuration" -> SYSTEMD_SYSTEM
      [] op = "remove_resolved_configuration" -> SYSTEMD_RESOLVED
      [] op = "remove_cpufreq_configuration" -> CPUFREQUTILS
      [] op = "remove_irqbalance_configuration" -> IRQBALANCE_CONF

\* This step's call recorded set_resource(r) at the time of the call.
RecordedNow(r) ==
    /\ <<"set_resource", r>> \in Effects(last')
    /\ key_for(r) \in DOMAIN db'
    /\ db'[key_for(r)] = now'

C11_RemovalIsRecorded ==
    [][\A op \in RemoveOps :
        (last'.op = op /\ fs' # fs) => RecordedNow(TargetOf(op))]_vars

(***************************************************************************)
(* C11, amended.  remove_systemd_configuration,                            *)
(* remove_cpufreq_configuration and remove_irqbalance_configuration record *)
(* set_resource for their target in every call that renders the file, also *)
(* when the service restart that follows fails.                            *)
(* remove_grub_configuration calls set_resource after update-grub: when it *)
(* deletes the fragment and update-grub fails, the call raises and records *)
(* nothing; otherwise it records.  remove_resolved_configuration never     *)
(* calls set_resource: the resolver file has no record.                    *)
(***************************************************************************)
C11_RemovalRecordedPerMethod ==
    [][/\ \A op \in {"remove_systemd_configuration", "remove_cpufreq_configuration",
                     "remove_irqbalance_configuration"} :
            (last'.op = op /\ <<"render", TargetOf(op)>> \in Effects(last'))
                => RecordedNow(TargetOf(op))
       /\ (last'.op = "remove_grub_configuration" /\ fs' # fs)
            => IF last'.raised THEN db' = db ELSE RecordedNow(GRUB_CONF)
       /\ last'.op = "remove_resolved_configuration"
            => /\ db' = db \/ DOMAIN db' \ DOMAIN db = {files_changed_key(SYSTEMD_RESOLVED)}
               /\ key_for(SYSTEMD_RESOLVED) \notin DOMAIN db'
               /\ <<"set_resource", SYSTEMD_RESOLVED>> \notin Effects(last')]_vars

\* remove_cpufreq_configuration has rendered and recorded, and the restart
\* of cpufrequtils failed.
C11_Witness ==
    /\ last.op = "remove_cpufreq_configuration"
    /\ <<"service_restart_failed", "cpufrequtils">> \in Effects(last)
    /\ db_has(key_for(CPUFREQUTILS))
    /\ db[key_for(CPUFREQUTILS)] = now


(***************************************************************************)
(* C12.  On external command failure the change record is not advanced     *)
(* without a write: in every update_*, remove_* and                        *)
(* install_configured_kernel call, set_resource for the target is reached  *)
(* only after the underlying write, delete or package install completed;   *)
(* if it did not, the resource's changed_at and checksum are unchanged.    *)
(***************************************************************************)
TrackedResources == {GRUB_CONF, SYSTEMD_SYSTEM, CPUFREQUTILS, IRQBALANCE_CONF, KERNEL}

\* The position of effect e in the effects of a call; 0 if it is not there.
PositionOf(e, call) ==
    IF e \in Effects(call)
    THEN CHOOSE i \in 1..Len(call.calls) : call.calls[i] = e
    ELSE 0

\* The write, delete or package install behind resource r completed in the
\* call, and before set_resource(r) if the call reached it.
WriteCompletedFirst(r, call) ==
    LET done == IF r = KERNEL
                THEN {<<"apt_install", "linux-image">>}
                ELSE {<<"render", r>>, <<"remove", r>>}
    IN  \E e \in done :
            /\ e \in Effects(call)
            /\ <<"set_resource", r>> \in Effects(call)
                => PositionOf(e, call) < PositionOf(<<"set_resource", r>>, call)

C12_NoRecordWithoutWrite ==
    [][\A r \in TrackedResources :
        (<<"set_resource", r>> \in Effects(last') \/ Record(db', r) # Record(db, r))
            => WriteCompletedFirst(r, last')]_vars

\* C12 holds of the resources that are files: it fails only for the kernel.
C12_NoFileRecordWithoutWrite ==
    [][\A r \in TrackedResources \ {KERNEL} :
        (<<"set_resource", r>> \in Effects(last') \/ Record(db', r) # Record(db, r))
            => WriteCompletedFirst(r, last')]_vars


(***************************************************************************)
(* C13.  install_configured_kernel with a non-empty kernel-version always  *)
(* installs the matching modules-extra package; it installs the kernel     *)
(* image and records the 'kernel' resource as changed if and only if the   *)
(* configured version differs from the running kernel; with an empty       *)
(* kernel-version it performs no package action and no record change.      *)
(***************************************************************************)
C13_InstallConfiguredKernel ==
    [][last'.op = "install_configured_kernel" =>
        LET version == config["kernel-version"]
            differs == version # uname_release
            image_installed ==
                /\ <<"apt_install", "linux-image">> \in Effects(last')
                /\ <<"linux-image", version>> \in packages'
            kernel_recorded ==
                /\ <<"set_resource", KERNEL>> \in Effects(last')
                /\ db' = [k \in DOMAIN db \cup {key_for(KERNEL)} |->
                            IF k = key_for(KERNEL) THEN now' ELSE db[k]]
        IN  IF version = ""
            THEN last'.calls = <<>> /\ packages' = packages /\ db' = db
            ELSE /\ <<"apt_install", "linux-modules-extra">> \in Effects(last')
                 /\ <<"linux-modules-extra", version>> \in packages'
                 /\ image_installed <=> differs
                 /\ kernel_recorded <=> differs
                 /\ ~differs =>
                        /\ db' = db
                        /\ packages' = packages \cup {<<"linux-modules-extra", version>>}
                        /\ <<"apt_install", "linux-image">> \notin Effects(last')
       ]_vars

\* The configured kernel is the running one, after a reboot into a kernel
\* the charm had installed: only modules-extra is installed.
C13_Witness ==
    /\ last.op = "install_configured_kernel"
    /\ config["kernel-version"] = KernelB
    /\ uname_release = KernelB
    /\ last.calls = <<<<"apt_install", "linux-modules-extra">>>>
    /\ db_has(key_for(KERNEL))
    /\ db[key_for(KERNEL)] < now


(***************************************************************************)
(* C14.  Governor mask/unmask sequence: outside a container,               *)
(* update_cpufreq with a non-empty valid governor masks the ondemand       *)
(* service and with governor "" unmasks it, so after any sequence of       *)
(* update_cpufreq and remove_cpufreq_configuration calls ondemand is       *)
(* masked exactly when the last applied governor was non-empty; inside a   *)
(* container no mask or unmask is issued.  The last applied governor is    *)
(* the one in the cpufrequtils file, "" when the file sets none.           *)
(***************************************************************************)
AppliedGovernor(f) ==
    IF "governor" \in DOMAIN f[CPUFREQUTILS].context
    THEN f[CPUFREQUTILS].context.governor
    ELSE ""

Systemctl == {<<"systemctl", "mask">>, <<"systemctl", "unmask">>}

IsGrubCheck(call) == call.op = "check_update_grub"

\* The candidate of the call after the rewrite.
Rewritten(call) ==
    _replace_uuids_with_labels(call.args.generated, call.args.blkid_mapping)

FailingMkconfigReported(call) ==
    ~call.args.grub_mkconfig_ok =>
        /\ ~call.raised
        /\ call.ret = <<FALSE, UnableToCheck>>

\* C15 as stated: the rewritten candidate alone decides.
C15_AvailableIffRewrittenDiffers ==
    IsGrubCheck(last) =>
        /\ FailingMkconfigReported(last)
        /\ last.args.grub_mkconfig_ok =>
                (last.ret[1] <=> Rewritten(last) # last.args.grub_cfg)

\* C15, amended: an update is available if and only if the candidate differs
\* from the existing file both as generated and after the rewrite; a file
\* equal to the candidate as generated is never reported, whatever the
\* rewrite would make of the candidate.
C15_AvailableIffBothDiffer ==
    IsGrubCheck(last) =>
        /\ FailingMkconfigReported(last)
        /\ last.args.grub_mkconfig_ok =>
                /\ ~last.raised
                /\ last.ret[1] <=>
                        /\ last.args.generated # last.args.grub_cfg
                        /\ Rewritten(last) # last.args.grub_cfg
                /\ last.ret[2] = IF last.ret[1] THEN FoundGrubUpdates ELSE NoGrubUpdates

\* The existing file names the root by label, the candidate by UUID: the
\* rewrite makes them equal and no update is reported.
C15_Witness ==
    /\ IsGrubCheck(last)
    /\ last.args.grub_mkconfig_ok
    /\ last.args.grub_cfg = <<"root=LABEL=", "l1">>
    /\ last.args.generated = <<"root=UUID=", "u1">>
    /\ last.args.blkid_mapping # <<>>
    /\ last.ret = <<FALSE, NoGrubUpdates>>


(***************************************************************************)
(* C16.  UUID to LABEL rewriting: _replace_uuids_with_labels replaces each *)
(* occurrence of root=UUID=<X> with root=LABEL=<label> for every X in the  *)
(* mapping, so the result contains no root=UUID=<X> for a mapped X, and    *)
(* text outside those occurrences is unchanged.                            *)
(***************************************************************************)
\* text contains part.
Contains(text, part) ==
    \E i \in 1..(Len(text) - Len(part) + 1) :
        SubSeq(text, i, i + Len(part) - 1) = part

\* The label the mapping gives UUID symbol x (a mapped one).
LabelOf(blkid_mapping, x) ==
    (CHOOSE pair \in Range(blkid_mapping) : pair[1] = <<x>>)[2][1]

\* Position i of content is the UUID of an occurrence of root=UUID=<X>, X mapped.
IsMappedUuidAt(content, blkid_mapping, i) ==
    /\ 1 < i
    /\ i <= Len(content)
    /\ content[i - 1] = "root=UUID="
    /\ \E pair \in Range(blkid_mapping) : pair[1] = <<content[i]>>

C16_UuidsReplacedByLabels ==
    last.op = "_replace_uuids_with_labels" =>
        LET content == last.args.content
            blkid_mapping == last.args.blkid_mapping
        IN  /\ \A pair \in Range(blkid_mapping) :
                ~Contains(last.ret, <<"root=UUID=">> \o pair[1])
            /\ Len(last.ret) = Len(content)
            /\ \A i \in 1..Len(content) :
                last.ret[i] =
                    IF IsMappedUuidAt(content, blkid_mapping, i)
                    THEN LabelOf(blkid_mapping, content[i])
                    ELSE IF IsMappedUuidAt(content, blkid_mapping, i + 1)
                    THEN "root=LABEL="
                    ELSE content[i]

\* A text with two occurrences of a mapped UUID, both rewritten.
C16_Witness ==
    /\ last.op = "_replace_uuids_with_labels"
    /\ last.args.content = <<"root=UUID=", "u1", "root=UUID=", "u1">>
    /\ last.args.blkid_mapping = <<<<<<"u1">>, <<"l2">>>>>>
    /\ last.ret = <<"root=LABEL=", "l2", "root=LABEL=", "l2">>


(***************************************************************************)
(* C17.  Config-flags parsing: parse_config_flags splits the string on     *)
(* commas outside double quotes; each token containing "=" starts a key    *)
(* whose value is the text after the first "=", and every following token  *)
(* without "=" is appended to that value rejoined with commas, up to the   *)
(* next token containing "="; so 'key1=val1, key2=val2,val3,val4' yields   *)
(* {key1: val1, key2: 'val2,val3,val4'}.                                   *)
(***************************************************************************)
\* The commas of s outside double quotes: an even number of quotes follows.
Delimiters(s) ==
    {i \in 1..Len(s) :
        /\ s[i] = ","
        /\ \E n \in 0..Len(s) :
            /\ Cardinality({j \in (i + 1)..Len(s) : s[j] = "\""}) = 2 * n}

\* In a string whose quotes are balanced these are the commas with an even
\* number of quotes before them.
DelimitersFromTheLeft(s) ==
    {i \in 1..Len(s) :
        /\ s[i] = ","
        /\ \E n \in 0..Len(s) :
            /\ Cardinality({j \in 1..(i - 1) : s[j] = "\""}) = 2 * n}

BalancedQuotes(s) ==
    \E n \in 0..Len(s) : Cardinality({j \in 1..Len(s) : s[j] = "\""}) = 2 * n

\* A token of s runs from a start (the first position, or the one after a
\* delimiter) to the position before the next delimiter or the end of s.
TokenStarts(s) == {1} \cup {i + 1 : i \in Delimiters(s)}
TokenEnd(s, start) ==
    LET later == {i \in Delimiters(s) : start <= i}
    IN  IF later = {} THEN Len(s)
        ELSE (CHOOSE i \in later : \A j \in later : i <= j) - 1
EqualsIn(s, start) == {i \in start..TokenEnd(s, start) : s[i] = "="}
KeyStarts(s) == {start \in TokenStarts(s) : EqualsIn(s, start) # {}}
FirstEqualsIn(s, start) ==
    CHOOSE i \in EqualsIn(s, start) : \A j \in EqualsIn(s, start) : i <= j

\* The stretch from..to of s without the whitespace at its two ends.
Stripped(s, from, to) ==
    LET inked == {i \in from..to : s[i] \notin Whitespace}
    IN  IF inked = {} THEN <<>>
        ELSE SubSeq(s, CHOOSE i \in inked : \A j \in inked : i <= j,
                       CHOOSE i \in inked : \A j \in inked : j <= i)

KeyAt(s, start) == Stripped(s, start, FirstEqualsIn(s, start) - 1)

\* The value of the key token at start: the text after its first "=", and the
\* text of s from the delimiter that ends the token up to the delimiter before
\* the next key token (or the end of s), which is the following tokens
\* without "=" joined by the commas that separated them.
ValueAt(s, start) ==
    LET later == {q \in KeyStarts(s) : start < q}
        next == IF later = {} THEN Len(s) + 2
                ELSE CHOOSE q \in later : \A r \in later : q <= r
    IN  Stripped(s, FirstEqualsIn(s, start) + 1, TokenEnd(s, start))
            \o SubSeq(s, TokenEnd(s, start) + 1, next - 2)

\* The dict: one entry per key, of the last token that starts the key.
ExpectedFlags(s) ==
    [key \in {KeyAt(s, start) : start \in KeyStarts(s)} |->
        LET starts == {start \in KeyStarts(s) : KeyAt(s, start) = key}
        IN  ValueAt(s, CHOOSE p \in starts : \A q \in starts : q <= p)]

C17_ParseConfigFlags ==
    last.op = "parse_config_flags" =>
        LET s == last.args.config_flags
        IN  /\ ~last.raised
            /\ last.ret = ExpectedFlags(s)
            /\ BalancedQuotes(s) => Delimiters(s) = DelimitersFromTheLeft(s)

\* The docstring's second example.
C17_Witness ==
    /\ last.op = "parse_config_flags"
    /\ last.args.config_flags = DocExample2
    /\ DOMAIN last.ret = {<<"key1">>, <<"key2">>}
    /\ last.ret[<<"key1">>] = <<"val1">>
    /\ last.ret[<<"key2">>] = <<"val2", ",", "val3", ",", "val4">>


(***************************************************************************)
(* C18.  The two record fields are written by disjoint operations:         *)
(* set_resource(name) changes only the changed_at of name and no checksum; *)
(* update_resource_checksums(names) changes only the recorded checksums of *)
(* those names whose backing file exists and no changed_at; neither        *)
(* touches the record of any other resource or the acknowledgment          *)
(* timestamp.                                                              *)
(***************************************************************************)
\* The keys of the store whose presence or value this step changes.
KeysChanged ==
    {k \in DOMAIN db \cup DOMAIN db' :
        \/ (k \in DOMAIN db) # (k \in DOMAIN db')
        \/ k \in DOMAIN db /\ k \in DOMAIN db' /\ db[k] # db'[k]}

C18_DisjointWriters ==
    [][/\ last'.op = "set_resource" =>
            /\ KeysChanged \subseteq {key_for(last'.args)}
            /\ db'[key_for(last'.args)] = now'
            /\ fs' = fs
       /\ last'.op = "update_resource_checksums" =>
            /\ KeysChanged \subseteq
                    {sha256sum_key(r) : r \in {x \in last'.args : x \in DOMAIN fs}}
            /\ \A r \in last'.args :
                    IF r \in DOMAIN fs
                    THEN db'[sha256sum_key(r)] = sha256(fs[r])
                    ELSE Record(db', r) = Record(db, r)
            /\ fs' = fs]_vars

\* Every field is on record and the operator has acknowledged; then
\* set_resource has moved the changed_at of the irqbalance file and
\* nothing else.
C18_Witness ==
    /\ last.op = "set_resource"
    /\ last.args = IRQBALANCE_CONF
    /\ db_has(CLEAR_NOTIFICATION_KEY)
    /\ db[CLEAR_NOTIFICATION_KEY] < now
    /\ db_has(sha256sum_key(IRQBALANCE_CONF))
    /\ db[sha256sum_key(IRQBALANCE_CONF)] # sha256(fs[IRQBALANCE_CONF])
    /\ db_has(key_for(KERNEL))
    /\ db[key_for(KERNEL)] < now
    /\ db[key_for(IRQBALANCE_CONF)] = now


(***************************************************************************)
(* C19.  Write implies record and action: whenever an update_* method      *)
(* writes a resource's file because the rendered configuration differs,    *)
(* the same call records set_resource(target) after the write and then     *)
(* triggers that resource's post-write action; this holds for every        *)
(* file-backed resource (grub, systemd limits, resolver cache,             *)
(* cpufrequtils, irqbalance).                                              *)
(***************************************************************************)
UpdateTarget(op) ==
    CASE op = "update_grub_file" -> GRUB_CONF
      [] op = "update_systemd_system_file" -> SYSTEMD_SYSTEM
      [] op = "update_systemd_resolved" -> SYSTEMD_RESOLVED
      [] op = "update_cpufreq" -> CPUFREQUTILS
      [] op = "update_irqbalance" -> IRQBALANCE_CONF

\* The post-write actions of the table, in the state the call starts in; a
\* restart is triggered whether or not the service comes up.
Restarts(service) ==
    {<<"service_restart", service>>, <<"service_restart_failed", service>>}

\* The call behind this step wrote the file of its target.
Wrote(op) == last'.op = op /\ <<"render", UpdateTarget(op)>> \in Effects(last')

\* The call recorded its target after the write, and every effect of the
\* call other than the write came after the record.
RecordedAfterWrite(op) ==
    LET target == UpdateTarget(op)
        at == PositionOf(<<"set_resource", target>>, last')
    IN  /\ RecordedNow(target)
        /\ PositionOf(<<"render", target>>, last') < at
        /\ \A i \in 1..Len(last'.calls) :
                last'.calls[i] \notin {<<"render", target>>, <<"set_resource", target>>}
                    => at < i

\* The post-write action of the call's resource was triggered.
ActionTriggered(op) ==
    CASE op = "update_grub_file" ->
            (config["update-grub"] /\ ~is_container)
                <=> <<"check_call", "update-grub">> \in Effects(last')
      [] op = "update_systemd_system_file" -> TRUE
      [] op = "update_systemd_resolved" ->
            Restarts("systemd-resolved") \cap Effects(last') # {}
      [] op = "update_cpufreq" ->
            /\ Restarts("cpufrequtils") \cap Effects(last') # {}
            /\ ~is_container =>
                    <<"systemctl", IF config["governor"] # "" THEN "mask" ELSE "unmask">>
                        \in Effects(last')
      [] op = "update_irqbalance" ->
            Restarts("irqbalance") \cap Effects(last') # {}

\* C19 as stated, of all five resources.
C19_WriteImpliesRecordAndAction ==
    [][\A op \in {"update_grub_file", "update_systemd_system_file",
                   "update_systemd_resolved", "update_cpufreq", "update_irqbalance"} :
        (Wrote(op) /\ fs' # fs) => RecordedAfterWrite(op) /\ ActionTriggered(op)]_vars

\* C19, amended: it holds of grub, the systemd limits, cpufrequtils and
\* irqbalance, in every call that writes the file.  update_systemd_resolved
\* writes the resolver's file and restarts the resolver when the written
\* text is not the one it wrote last, and never calls set_resource: the
\* resolver's file has no record.
C19_WriteImpliesRecordExceptResolved ==
    [][/\ \A op \in {"update_grub_file", "update_systemd_system_file",
                      "update_cpufreq", "update_irqbalance"} :
            Wrote(op) => RecordedAfterWrite(op) /\ ActionTriggered(op)
       /\ Wrote("update_systemd_resolved") =>
            /\ <<"set_resource", SYSTEMD_RESOLVED>> \notin Effects(last')
            /\ key_for(SYSTEMD_RESOLVED) \notin DOMAIN db'
            /\ \A r \in TrackedResources : Record(db', r) = Record(db, r)
            /\ fs' # fs => ActionTriggered("update_systemd_resolved")]_vars

\* update_grub_file on a machine with update-grub switched on: written,
\* recorded, update-grub run; and the resolver's file has been written
\* before, without a record.
C19_Witness ==
    /\ last.op = "update_grub_file"
    /\ last.calls = <<<<"render", GRUB_CONF>>, <<"set_resource", GRUB_CONF>>,
                      <<"check_call", "update-grub">>>>
    /\ db[key_for(GRUB_CONF)] = now
    /\ files_changed_key(SYSTEMD_RESOLVED) \in DOMAIN db
    /\ fs[SYSTEMD_RESOLVED] # Foreign
    /\ key_for(SYSTEMD_RESOLVED) \notin DOMAIN db


(***************************************************************************)
(* C20.  Systemd write-skip: update_systemd_system_file writes             *)
(* /etc/systemd/system.conf and calls set_resource if and only if the      *)
(* parsed key/value structure of the newly rendered content differs from   *)
(* that of the existing file; when they are structurally equal (including  *)
(* differences only in ordering or formatting) the file and the resource's *)
(* record are left unchanged.                                              *)
(***************************************************************************)
\* The settings of a text: what is left of it when ordering and formatting
\* are set aside.
SettingsOf(content) == content.context

\* What update_systemd_system_file renders in the state the call starts in.
RenderedSystemd == render(SYSTEMD_SYSTEM_TMPL, _assemble_systemd_context)

StructurallyEqual ==
    /\ SYSTEMD_SYSTEM \in DOMAIN fs
    /\ SettingsOf(fs[SYSTEMD_SYSTEM]) = SettingsOf(RenderedSystemd)

C20_SystemdWriteSkip ==
    [][last'.op = "update_systemd_system_file" =>
        IF StructurallyEqual
        THEN /\ fs' = fs
             /\ db' = db
             /\ last'.calls = <<>>
        ELSE /\ fs'[SYSTEMD_SYSTEM] = RenderedSystemd
             /\ last'.calls = <<<<"render", SYSTEMD_SYSTEM>>,
                                 <<"set_resource", SYSTEMD_SYSTEM>>>>
             /\ RecordedNow(SYSTEMD_SYSTEM)]_vars

\* The file has the settings the charm renders in another order or
\* formatting, after the charm wrote and recorded it earlier; the call has
\* written and recorded nothing.
C20_Witness ==
    /\ last.op = "update_systemd_system_file"
    /\ last.calls = <<>>
    /\ fs[SYSTEMD_SYSTEM] # RenderedSystemd
    /\ fs[SYSTEMD_SYSTEM] = Reformatted(RenderedSystemd)
    /\ cpu_affinity_range # ""
    /\ db_has(key_for(SYSTEMD_SYSTEM))
    /\ db[key_for(SYSTEMD_SYSTEM)] < now


(***************************************************************************)
(* C21.  The resolver service is restarted only on a real change: in any   *)
(* sequence of update_systemd_resolved / remove_resolved_configuration     *)
(* calls, systemd-resolved is restarted by a call exactly when the content *)
(* rendered by that call differs from the content seen by the previous     *)
(* file-changed check; two consecutive calls with the same context restart *)
(* it at most once.                                                        *)
(***************************************************************************)
ResolvedOps == {"update_systemd_resolved", "remove_resolved_configuration"}

\* The call rendered the resolver's file (and so reached the check).
RenderedResolved(call) ==
    call.op \in ResolvedOps /\ <<"render", SYSTEMD_RESOLVED>> \in Effects(call)

RestartedResolved(call) == Restarts("systemd-resolved") \cap Effects(call) # {}

\* The file-changed check has seen content in store d: its digest is the
\* one on record.  Before the first check nothing is on record, and every
\* content differs from what was seen.
SeenByCheck(d, content) ==
    /\ files_changed_key(SYSTEMD_RESOLVED) \in DOMAIN d
    /\ d[files_changed_key(SYSTEMD_RESOLVED)] = md5(content)

C21_RestartOnlyOnChange ==
    [][/\ RenderedResolved(last') =>
            \* restarted exactly when the rendered content is not the one seen
            /\ RestartedResolved(last') <=> ~SeenByCheck(db, fs'[SYSTEMD_RESOLVED])
            \* and the check has now seen what the call rendered
            /\ SeenByCheck(db', fs'[SYSTEMD_RESOLVED])
       /\ (last'.op \in ResolvedOps /\ ~RenderedResolved(last')) =>
            /\ ~RestartedResolved(last')
            /\ db' = db
            /\ fs' = fs
       \* two calls in a row that render the same content: no second restart
       /\ ( /\ RenderedResolved(last)
            /\ RenderedResolved(last')
            /\ fs'[SYSTEMD_RESOLVED] = fs[SYSTEMD_RESOLVED] )
           => ~RestartedResolved(last')]_vars

\* A later call has rendered the content the last check saw: no restart.
C21_Witness ==
    /\ RenderedResolved(last)
    /\ ~RestartedResolved(last)
    /\ resolved_cache_mode = "yes"
    /\ fs[SYSTEMD_RESOLVED] = render(SYSTEMD_RESOLVED_TMPL, [cache |-> "yes"])
    /\ SeenByCheck(db, fs[SYSTEMD_RESOLVED])
    /\ 2 < now


(***************************************************************************)
(* C22.  EffectiveCutoff used by resources_changed_since_boot is           *)
(* max(boot time, acknowledgment time) when an acknowledgment is on record *)
(* and boot time otherwise; hence an acknowledgment older than the current *)
(* boot has no effect on the result, and a reboot after a write clears the *)
(* time-changed status of every resource written before it.                *)
(***************************************************************************)
Acknowledged == CLEAR_NOTIFICATION_KEY \in DOMAIN db
AcknowledgmentTime == db[CLEAR_NOTIFICATION_KEY]

EffectiveCutoff ==
    IF Acknowledged
    THEN (IF boot < AcknowledgmentTime THEN AcknowledgmentTime ELSE boot)
    ELSE boot

\* changed_at of r, the dawn of time when none is recorded.
ChangedAt(r) == IF key_for(r) \in DOMAIN db THEN db[key_for(r)] ELSE DatetimeMin

\* What a query for names returns when cutoff is the cutoff.
ReturnedWith(cutoff, names) ==
    {r \in names : cutoff < ChangedAt(r) /\ CsumChanged(r)}

C22_EffectiveCutoff ==
    [][/\ (IsQuery(last') /\ ~last'.raised) =>
            /\ last'.ret = ReturnedWith(EffectiveCutoff, last'.args)
            \* an acknowledgment older than the boot: as if there were none
            /\ (Acknowledged /\ AcknowledgmentTime <= boot)
                    => last'.ret = ReturnedWith(boot, last'.args)
       \* a reboot: nothing written before it is time-changed afterwards
       /\ last'.op = "reboot" =>
            \A r \in BootResources :
                /\ ChangedAt(r)' <= boot'
                /\ ~(EffectiveCutoff' < ChangedAt(r)')
       \* and it is not returned as long as it is not written again
       /\ (IsQuery(last') /\ ~last'.raised) =>
            \A r \in last'.args : ChangedAt(r) <= boot => r \notin last'.ret]_vars

\* Acknowledged, written, rebooted, queried: the write is later than the
\* acknowledgment and not later than the boot, and is not returned.
C22_Witness ==
    /\ IsQuery(last)
    /\ ~last.raised
    /\ Acknowledged
    /\ AcknowledgmentTime < boot
    /\ \E r \in last.args :
        /\ AcknowledgmentTime < ChangedAt(r)
        /\ ChangedAt(r) <= boot
        /\ r \notin last.ret


(***************************************************************************)
(* C23.  Deprecated fallback precedence: isolcpus (resp.                   *)
(* cpu-affinity-range) evaluates to its own configured value whenever that *)
(* value is non-empty; when it is empty it evaluates to cpu-range only if  *)
(* reservation is 'isolcpus' (resp. 'affinity') and cpu-range is           *)
(* non-empty, and to the empty value in every other case.                  *)
(***************************************************************************)
\* The value of the property read from option, whose fallback applies under
\* reservation mode.
WithFallback(option, mode) ==
    CASE config[option] # "" -> config[option]
      [] config[option] = "" /\ config["reservation"] = mode
            /\ config["cpu-range"] # "" -> config["cpu-range"]
      [] OTHER -> ""

C23_FallbackPrecedence ==
    /\ last.op = "isolcpus" =>
            ~last.raised /\ last.ret = WithFallback("isolcpus", "isolcpus")
    /\ last.op = "cpu_affinity_range" =>
            ~last.raised /\ last.ret = WithFallback("cpu-affinity-range", "affinity")

\* cpu-affinity-range is empty and cpu-range set, under the reservation of
\* the other property: isolcpus falls back, cpu-affinity-range does not.
C23_Witness ==
    /\ last.op = "cpu_affinity_range"
    /\ config["cpu-affinity-range"] = ""
    /\ config["isolcpus"] = ""
    /\ config["cpu-range"] # ""
    /\ config["reservation"] = "isolcpus"
    /\ last.ret = ""
    /\ isolcpus = config["cpu-range"]


(***************************************************************************)
(* C24.  The change query is idempotent: two consecutive calls of          *)
(* resources_changed_since_boot on the same resource list, with no write,  *)
(* acknowledgment, reboot or file change in between, return the same set,  *)
(* and the second call performs no store update; a resource that is        *)
(* returned keeps its recorded checksum and changed_at unchanged, so it    *)
(* keeps being returned until a reboot, an acknowledgment or a content     *)
(* change.                                                                 *)
(***************************************************************************)
\* A query that names r returns it.
Returnable(r) == EffectiveCutoff < ChangedAt(r) /\ CsumChanged(r)

C24_QueryIdempotent ==
    [][\* the second of two queries in a row on the same list
       /\ ( /\ IsQuery(last) /\ ~last.raised
            /\ IsQuery(last') /\ last'.args = last.args )
           => /\ ~last'.raised
              /\ last'.ret = last.ret
              /\ db' = db
       \* a returned resource keeps its record
       /\ (IsQuery(last') /\ ~last'.raised) =>
            \A r \in last'.args :
                /\ r \in last'.ret <=> Returnable(r)
                /\ r \in last'.ret => Record(db', r) = Record(db, r)
       \* and stays returnable until a reboot, an acknowledgment or a change
       \* of its file's content
       /\ \A r \in BootFiles :
            (Returnable(r) /\ ~Returnable(r)') =>
                \/ last'.op \in {"reboot", "clear_notification"}
                \/ ContentOf(fs', r) # ContentOf(fs, r)]_vars

\* A query returns resources written at least two clock readings earlier
\* and passes over one whose checksum an earlier query recorded (only
\* queries record checksums).
C24_Witness ==
    /\ IsQuery(last)
    /\ ~last.raised
    /\ last.ret # {}
    /\ \A r \in last.ret : ChangedAt(r) < now - 1 /\ Returnable(r)
    /\ \E r \in last.args \ last.ret : db_has(sha256sum_key(r))


(***************************************************************************)
(* C25.  check_grub_reboot returns false whenever an acknowledgment is on  *)
(* record that is later than the grub resource's changed_at (dawn of time  *)
(* when unrecorded), regardless of whether a grub update is available;     *)
(* otherwise it returns the update-available flag of check_update_grub;    *)
(* boot time plays no part in the decision.                                *)
(***************************************************************************)
\* The flag check_update_grub returns in the call.
UpdateAvailable(call) ==
    /\ call.args.grub_mkconfig_ok
    /\ call.args.generated # call.args.grub_cfg
    /\ Rewritten(call) # call.args.grub_cfg

C25_CheckGrubReboot ==
    last.op = "check_grub_reboot" =>
        /\ ~last.raised
        /\ last.ret =
                IF Acknowledged /\ ChangedAt(GRUB_CONF) < AcknowledgmentTime
                THEN FALSE
                ELSE UpdateAvailable(last)

\* The fragment was written before the boot and nothing is acknowledged:
\* the available update is reported, boot time notwithstanding.
C25_WitnessBoot ==
    /\ last.op = "check_grub_reboot"
    /\ ~Acknowledged
    /\ db_has(key_for(GRUB_CONF))
    /\ ChangedAt(GRUB_CONF) < boot
    /\ UpdateAvailable(last)
    /\ last.ret = TRUE

\* The fragment was written, the operator acknowledged later: the available
\* update is not reported.
C25_Witness ==
    /\ last.op = "check_grub_reboot"
    /\ Acknowledged
    /\ db_has(key_for(GRUB_CONF))
    /\ ChangedAt(GRUB_CONF) < AcknowledgmentTime
    /\ UpdateAvailable(last)
    /\ last.ret = FALSE

================================================================================
